---- MODULE Spec2Model ----
(***************************************************************************)
(* SceneUtil::LightManager (components/sceneutil/lightmanager.cpp): the     *)
(* per-frame light list, the per-camera view-space cache, the light index   *)
(* maps, the state-set caches and the GPU light buffers, with one action    *)
(* per public operation of the manager.                                     *)
(*                                                                          *)
(* Geometry is one-dimensional: a world matrix is its translation, a view   *)
(* matrix is the offset it adds to a world coordinate, a bounding sphere is *)
(* a centre coordinate and a radius.  Colours are one non-negative channel  *)
(* in fixed point (DiffuseInit is full intensity); a fade factor is the     *)
(* exact fraction fadeNum / fadeDelta.                                      *)
(***************************************************************************)
EXTENDS Integers, Sequences, FiniteSets, TLC

\* ---------------------------------------------------------------- bounds
\* Number of LightSource nodes in the scene (ids 0 .. NumLights-1).
NumLights == 2
\* Largest traversal (frame) number issued by the viewer.
MaxFrame == 2
\* Largest number of addLight calls per frame.
MaxCollected == 2
\* Largest number of StateSet objects allocated over a run.
MaxStateSets == 3
\* Size limit of a uniform block in bytes; stands for the 16384 of
\* getMaxLightsInScene (lightmanager.cpp:947), scaled so that more lights
\* than fit can be registered.
BlockSizeLimit == 96

\* Largest collection and largest scene capacity the truncation is applied to,
\* and largest view-space distance of an entry.
MaxEntries == 4
MaxCapacity == 4
MaxCentre == 2

\* Largest number of LightSource objects constructed.
MaxSources == 4

\* Largest number of state sets other nodes hold on the cull visitor's stack
\* above the callback's own.
MaxNesting == 1

\* Largest number of light sources marked as ignored for the lit node.
MaxIgnored == 1

\* Most subgraphs CopyRigVisitor copies, and most children master and
\* attachNode have before attach.
MaxCopies == 2
MaxChildren == 2

\* Most cull traversals of the manager's node with one traversal number.
MaxInvocations == 2

\* Largest light count queryBlockSize is asked for.
MaxBlockCount == 400

\* Largest light budget the fitting of a light list is applied with.
MaxBudget == 3

\* mLastFrameNumber of a callback that has seen no frame, and the state set
\* of a node other than the lit one.
NoFrame == -1
OtherStateSet == -2

\* illuminationBias of sortLights, and the largest size_t (scaled).
illuminationBias == 81
SizeMax == 2147483647
\* Orphan-cleanup threshold of update; stands for the 5000 of
\* lightmanager.cpp:1143, scaled so that a cache can grow past it.
OrphanLimit == 1
\* Configured "max lights" after clamping (targetLights).
TargetLights == 2
\* Width in bits of the modelled std::size_t hash value.
HashBits == 12

\* Colour of every light before any fade, both buffered copies.
DiffuseInit == 2
\* Point-light radius of every LightSource.
LightRadius == 1
\* "maximum light distance" setting of the shader tiers; "light fade start"
\* is one half of it.
FadeEndSetting == 4

Lights == 0 .. (NumLights - 1)
Cameras == {"MainCamera", "ReflectionCamera"}

\* The cameras of a scene with a second camera that is no reflection camera.
SceneCameras == Cameras \cup {"LocalMapCamera"}
Methods == {"FFP", "PerObjectUniform", "SingleUBO"}
\* World coordinate of each LightSource node (the translation of the world
\* matrix its node path resolves to).
WorldMatrixOf == [id \in Lights |-> 3 + 2 * id]
\* View-matrix offset of each camera (the camera sits at minus the offset).
ViewMatrixOf ==
    [c \in SceneCameras |->
        IF c = "ReflectionCamera" THEN -4 ELSE 0]

VARIABLES
    mLightingMethod,      \* LightManager::mLightingMethod
    mMaxLights,           \* LightManager::mMaxLights
    mStartLight,          \* LightManager::mStartLight
    mPointLightRadiusMultiplier,
    mPointLightFadeEnd,
    mPointLightFadeStart,
    mLight,               \* LightSource::mLight[2], per light id
    mLights,              \* LightManager::mLights
    mLightsInViewSpace,   \* LightManager::mLightsInViewSpace
    mLightIndexMaps,      \* LightManager::mLightIndexMaps[2]
    mStateSetCache,       \* LightManager::mStateSetCache[2]
    mLightBuffers,        \* LightManager::mLightBuffers[2] (records in range)
    frameNumber,          \* traversal number of the frame in progress
    nextStateSet,         \* number of StateSet objects allocated so far
    lastCall,             \* the call that made the last step, with its result
    seenIds,              \* history: ids met by getLightListStateSet, per parity
    issued,               \* history: list -> object returned, per parity
    camFrame,             \* history: last frame each camera was queried for
    mStateSetGenerator,   \* LightManager::mStateSetGenerator
    mLightingMask,        \* LightManager::mLightingMask
    mSun,                 \* LightManager::mSun
    settings,             \* Settings::Manager values read after construction
    mData,                \* LightBuffer::mData of mLightBuffers[2], float by float
    mOffsets,             \* LightBuffer::mOffsets of mLightBuffers[2]
    mCachedSunPos,        \* LightBuffer::mCachedSunPos of mLightBuffers[2]
    mInitLayout,          \* LightManagerStateAttribute::mInitLayout
    configured,           \* history: configureLayout calls made, per buffer
    observed,             \* history: an apply has seen an active uniform block
    sLightId,             \* static int sLightId
    mId,                  \* LightSource::mId, per LightSource in construction order
    origin,               \* history: the LightSource each one was copied from (0: none)
    mCollectManager,      \* CollectLightCallback::mLightManager, per light source
    mLightManager,        \* LightListCallback::mLightManager
    mLastFrameNumber,     \* LightListCallback::mLastFrameNumber
    mLightList,           \* LightListCallback::mLightList
    mIgnoredLightSources, \* LightListCallback::mIgnoredLightSources
    stateSetStack,        \* the cull visitor's state set stack
    pc,                   \* position in LightListCallback::operator(), with its locals
    queried,              \* history: getLightsInViewSpace calls of the callback, per frame
    mCullFrameNumber,     \* LightManagerCullCallback::mLastFrameNumber
    invoked,              \* history: LightManagerCullCallback calls, per traversal number
    refreshed             \* history: refreshes of sun and binding, per traversal number

vars == <<mLightingMethod, mMaxLights, mStartLight, mPointLightRadiusMultiplier,
          mPointLightFadeEnd, mPointLightFadeStart, mLight, mLights,
          mLightsInViewSpace, mLightIndexMaps, mStateSetCache, mLightBuffers,
          frameNumber, nextStateSet, lastCall, seenIds, issued, camFrame,
          mStateSetGenerator, mLightingMask, mSun, settings,
          mData, mOffsets, mCachedSunPos, mInitLayout, configured, observed,
          sLightId, mId, origin, mCollectManager, mLightManager, mLastFrameNumber,
          mLightList, mIgnoredLightSources, stateSetStack, pc, queried,
          mCullFrameNumber, invoked, refreshed>>

config == <<mLightingMethod, mMaxLights, mStartLight, mPointLightRadiusMultiplier,
            mPointLightFadeEnd, mPointLightFadeStart>>

\* The fields and settings the calls of a frame leave alone.
\* The float arrays of the light buffers and the state attribute that lays
\* them out.
layout == <<mData, mOffsets, mCachedSunPos, mInitLayout, configured, observed>>

others == <<mStateSetGenerator, mLightingMask, mSun, settings, layout>>

\* The LightSource nodes constructed so far and their collect callbacks.
sources == <<sLightId, mId, origin, mCollectManager>>

\* The LightListCallback of a node and the cull visitor that runs it.
culling == <<mLightManager, mLastFrameNumber, mLightList, mIgnoredLightSources,
             stateSetStack, pc, queried>>

\* The LightManagerCullCallback of the manager's node.
managerCull == <<mCullFrameNumber, invoked, refreshed>>

\* The scene graph around the manager.
scene == <<sources, culling, managerCull>>

\* ---------------------------------------------------------------- helpers
EmptyMap == <<>>

Abs(x) == IF x < 0 THEN -x ELSE x

\* std::clamp
clamp(v, lo, hi) == IF v < lo THEN lo ELSE IF hi < v THEN hi ELSE v

Min(a, b) == IF a < b THEN a ELSE b

\* frame parity selecting one of the two buffered generations
\* (getLight, getLightIndexMap, getLightBuffer: index frameNum % 2)
Generation(frameNum) == frameNum % 2

RECURSIVE Pow2(_)
Pow2(n) == IF n = 0 THEN 1 ELSE 2 * Pow2(n - 1)

\* ------------------------------------------------------------------ hash
\* bitwise exclusive or of two naturals
RECURSIVE Xor(_, _)
Xor(a, b) ==
    IF a = 0 THEN b
    ELSE IF b = 0 THEN a
    ELSE (((a % 2) + (b % 2)) % 2) + 2 * Xor(a \div 2, b \div 2)

\* low bits of the constant 0x9e3779b9 of Misc::hashCombine
GoldenRatio == 31161

\* Misc::hashCombine(seed, v): seed ^= hash(v) + 0x9e3779b9 + (seed<<6) + (seed>>2),
\* in arithmetic modulo 2^HashBits; std::hash of an int is the int.
hashCombine(seed, v) ==
    Xor(seed, (v + (GoldenRatio % Pow2(HashBits)) + seed * 64 + (seed \div 4)) % Pow2(HashBits))

\* ---------------------------------------------------------- LightBuffer
\* Variant of queryBlockSize that counts floats, not bytes.
queryBlockSize_Floats(sz) == 3 * 4 * sz

\* LightBuffer::queryBlockSize: 3 * Vec4::num_components * sizeof(GLfloat) * sz
queryBlockSize(sz) == 3 * 4 * 4 * sz

\* The block size limit of LightManager::getMaxLightsInScene, in bytes.
UniformBlockLimit == 16384

\* LightManager::getMaxLightsInScene for a block size limit:
\* limit / LightBuffer::queryBlockSize(1)
maxLightsInBlock(limit) == limit \div queryBlockSize(1)

\* LightManager::getMaxLightsInScene
getMaxLightsInScene == BlockSizeLimit \div queryBlockSize(1)

\* A record of the buffer as LightBuffer(count) leaves it: all floats zero.
ZeroRecord == [diffuse |-> 0, diffuseSign |-> 0, ambient |-> 0,
               position |-> 0, attenuationRadius |-> 0]

\* LightBuffer::LightBuffer(count): 3*4*count floats, records 0 .. count-1
NewLightBuffer(count) == [i \in 0 .. (count - 1) |-> ZeroRecord]

\* LightBuffer::setDiffuse: a negative colour is stored negated, with the sign
\* marker ~0u (here -1) instead of 1.  A write at an index that is not below
\* the buffer's count lands past the end of mData: no record changes.
setDiffuse(buf, index, value) ==
    IF index \notin DOMAIN buf THEN buf
    ELSE [buf EXCEPT ![index].diffuse = IF value < 0 THEN -value ELSE value,
                     ![index].diffuseSign = IF value < 0 THEN -1 ELSE 1]

\* LightBuffer::setAmbient
setAmbient(buf, index, value) ==
    IF index \notin DOMAIN buf THEN buf ELSE [buf EXCEPT ![index].ambient = value]

\* LightBuffer::setAttenuationRadius (the radius component)
setAttenuationRadius(buf, index, value) ==
    IF index \notin DOMAIN buf THEN buf ELSE [buf EXCEPT ![index].attenuationRadius = value]

\* LightBuffer::setPosition
setPosition(buf, index, value) ==
    IF index \notin DOMAIN buf THEN buf ELSE [buf EXCEPT ![index].position = value]

\* ------------------------------------------------- LightBuffer, float by float
\* Bits of one colour channel of a packed colour (8 in the code).
ChannelBits == 4

ChannelMax == Pow2(ChannelBits) - 1

\* The sign marker ~0u of a negative light: every bit of the word set.
SignNegative == Pow2(4 * ChannelBits) - 1

\* sizeof(GLfloat)
sizeofFloat == 4

\* osg::Vec4::num_components
num_components == 4

\* enum LightBuffer::LayoutOffset
LayoutOffset == {"Diffuse", "DiffuseSign", "Ambient", "Specular", "Position",
                 "AttenuationRadius"}

\* LightBuffer::Offsets::Offsets(): the layout a buffer starts with.
DefaultOffsets ==
    [mStride |-> 12,
     mValues |-> [slot \in LayoutOffset |->
        CASE slot = "Diffuse" -> 0
          [] slot = "Ambient" -> 1
          [] slot = "Specular" -> 2
          [] slot = "DiffuseSign" -> 3
          [] slot = "Position" -> 4
          [] slot = "AttenuationRadius" -> 8]]

\* LightBuffer::Offsets::Offsets(offsetColors, offsetPosition,
\* offsetAttenuationRadius, stride): byte offsets turned into float indices.
Offsets(offsetColors, offsetPosition, offsetAttenuationRadius, stride) ==
    LET diffuseOffset == offsetColors \div sizeofFloat
    IN [mStride |-> (offsetAttenuationRadius + sizeofFloat * num_components + stride) \div 4,
        mValues |-> [slot \in LayoutOffset |->
           CASE slot = "Diffuse" -> diffuseOffset
             [] slot = "Ambient" -> diffuseOffset + 1
             [] slot = "Specular" -> diffuseOffset + 2
             [] slot = "DiffuseSign" -> diffuseOffset + 3
             [] slot = "Position" -> offsetPosition \div sizeofFloat
             [] slot = "AttenuationRadius" -> offsetAttenuationRadius \div sizeofFloat]]

\* LightBuffer::Offsets::get
get(offsets, index, slot) == offsets.mStride * index + offsets.mValues[slot]

\* mData(new osg::FloatArray(3*4*count)): floats 0 .. 3*4*count - 1, all zero
NewData(count) == [w \in 0 .. (3 * 4 * count - 1) |-> 0]

\* LightBuffer::asRGBA: each component clamped to the channel range, then red,
\* green, blue and alpha packed into one word from the high bits down.
asRGBA(value) ==
    LET c(i) == clamp(value[i], 0, ChannelMax)
        base == ChannelMax + 1
    IN ((c(1) * base + c(2)) * base + c(3)) * base + c(4)

\* std::memcpy of one word to float index at
storeWord(data, at, word) == [data EXCEPT ![at] = word]

\* std::memcpy of an osg::Vec4f to float indices at .. at + 3
storeVec4(data, at, value) ==
    [data EXCEPT ![at] = value[1], ![at + 1] = value[2], ![at + 2] = value[3],
                 ![at + 3] = value[4]]

\* LightBuffer::setDiffuse on the float array
packDiffuse(data, offsets, index, value) ==
    LET negative == value[1] < 0
        positiveColor == IF negative THEN [i \in 1 .. 4 |-> -value[i]] ELSE value
        signBit == IF negative THEN SignNegative ELSE 1
    IN storeWord(storeWord(data, get(offsets, index, "Diffuse"), asRGBA(positiveColor)),
                 get(offsets, index, "DiffuseSign"), signBit)

\* Variant of packAmbient that stores the word in the diffuse slot.
packAmbient_AtDiffuse(data, offsets, index, value) ==
    storeWord(data, get(offsets, index, "Diffuse"), asRGBA(value))

\* LightBuffer::setAmbient on the float array
packAmbient(data, offsets, index, value) ==
    storeWord(data, get(offsets, index, "Ambient"), asRGBA(value))

\* LightBuffer::setSpecular on the float array
packSpecular(data, offsets, index, value) ==
    storeWord(data, get(offsets, index, "Specular"), asRGBA(value))

\* LightBuffer::setPosition on the float array
packPosition(data, offsets, index, value) ==
    storeVec4(data, get(offsets, index, "Position"), value)

\* LightBuffer::setAttenuationRadius on the float array
packAttenuationRadius(data, offsets, index, value) ==
    storeVec4(data, get(offsets, index, "AttenuationRadius"), value)

\* Variant of copyVec4 that copies the first float only.
copyVec4_OneFloat(dst, to, src, from) == [dst EXCEPT ![to] = src[from]]

\* std::memcpy of an osg::Vec4f from float index from of src to float index
\* to of dst
copyVec4(dst, to, src, from) ==
    [dst EXCEPT ![to] = src[from], ![to + 1] = src[from + 1],
                ![to + 2] = src[from + 2], ![to + 3] = src[from + 3]]

\* The loop of configureLayout from record i on: acc is the resized array,
\* data the copy of the array under the old layout.
RECURSIVE copyRecords(_, _, _, _, _, _)
copyRecords(i, count, acc, data, old, offsets) ==
    IF i >= count THEN acc
    ELSE
      LET a1 == copyVec4(acc, get(offsets, i, "Diffuse"), data, get(old, i, "Diffuse"))
          a2 == copyVec4(a1, get(offsets, i, "Position"), data, get(old, i, "Position"))
          a3 == copyVec4(a2, get(offsets, i, "AttenuationRadius"), data,
                         get(old, i, "AttenuationRadius"))
      IN copyRecords(i + 1, count, a3, data, old, offsets)

\* LightBuffer::configureLayout on a buffer of count records: the array
\* resized to size floats and the layout that replaces the buffer's.
configureLayout(buffer, count, offsetColors, offsetPosition, offsetAttenuationRadius, size, stride) ==
    LET offsets == Offsets(offsetColors, offsetPosition, offsetAttenuationRadius, stride)
        data == buffer.mData
        resized == [w \in 0 .. (size - 1) |-> IF w \in DOMAIN data THEN data[w] ELSE 0]
    IN [mData |-> copyRecords(0, count, resized, data, buffer.mOffsets, offsets),
        mOffsets |-> offsets]

\* ---------------------------------------------------------- LightSource
\* LightSource::getRadius
getRadius(id) == LightRadius

\* osg::Light of one buffered copy: position, diffuse and ambient colour
NewLight == [position |-> 0, diffuse |-> DiffuseInit, ambient |-> 0]

\* ------------------------------------------------------------- the calls
\* The record of a call: its name, its arguments and what it returned.
\*   ids    light ids of the list given (getLightListStateSet) or of the
\*          world transform given (addLight)
\*   slots  buffer indices handed to the LightBuffer setters by the call
\*   ret    the StateSet object returned, -1 when the call returns none
\*   hit    whether the call was answered from a cache
Call(op, frameNum, camera, ids, slots, ret, hit) ==
    [op |-> op, frameNum |-> frameNum, camera |-> camera, ids |-> ids,
     slots |-> slots, ret |-> ret, hit |-> hit]

NoCamera == "none"

\* ------------------------------------------------------------ construction
\* LightManager::LightManager(ffp): mMaxLightsLowerLimit / UpperLimit clamp is
\* already applied to TargetLights; mFFPMaxLights is the fixed-function count.
FFPMaxLights == 8

\* LightManager::mMaxLightsLowerLimit and the scaled mMaxLightsUpperLimit.
MaxLightsLowerLimit == 2

MaxLightsUpperLimit == 3

\* Variant of getTargetLights that takes the setting as it is.
getTargetLights_Unclamped(maxLights) == maxLights

\* The "max lights" setting clamped to the engine's limits.
getTargetLights(maxLights) == clamp(maxLights, MaxLightsLowerLimit, MaxLightsUpperLimit)

\* Variant of getLightingMethodFromString that falls back to SingleUBO.
getLightingMethodFromString_FallbackUBO(value) ==
    CASE value = "legacy" -> "FFP"
      [] value = "shaders compatibility" -> "PerObjectUniform"
      [] value = "shaders" -> "SingleUBO"
      [] OTHER -> "SingleUBO"

\* LightManager::getLightingMethodFromString: the lookup in
\* mLightingMethodSettingMap, an unknown value logged and answered with
\* PerObjectUniform.
getLightingMethodFromString(value) ==
    CASE value = "legacy" -> "FFP"
      [] value = "shaders compatibility" -> "PerObjectUniform"
      [] value = "shaders" -> "SingleUBO"
      [] OTHER -> "PerObjectUniform"

\* The init function the constructor calls: initFFP, initPerObjectUniform or
\* initSingleUBO, named by the tier it sets.
selectLightingMethod(ffp, supportsUBO, supportsGPU4, lightingMethod) ==
    IF ffp THEN "FFP"
    ELSE IF ~supportsUBO \/ ~supportsGPU4 \/ lightingMethod = "PerObjectUniform"
         THEN "PerObjectUniform"
         ELSE "SingleUBO"

\* LightManager::setLightingMethod: the generator made for the tier.
setLightingMethod(method) ==
    CASE method = "FFP" -> "StateSetGeneratorFFP"
      [] method = "SingleUBO" -> "StateSetGeneratorSingleUBO"
      [] method = "PerObjectUniform" -> "StateSetGeneratorPerObjectUniform"

\* Width of a node mask in the model.
MaskBits == 4

\* mLightingMask(~0u)
FullMask == Pow2(MaskBits) - 1

\* mSun(nullptr)
NoSun == "nullptr"

\* The settings store: the keys the manager reads again after construction.
Settings(maxLights, maxLightDistance) ==
    [key \in {"max lights", "maximum light distance"} |->
        IF key = "max lights" THEN maxLights ELSE maxLightDistance]

\* A null pointer to a LightManager, and the pointer findLightManager returns
\* when the node path holds the manager.
NoManager == "nullptr"
TheManager == "LightManager"

\* LightListCallback::operator() is not running: the callback has not been
\* constructed yet (NotBuilt) or waits for the cull visitor (Idle).
Position(at) == [at |-> at, pushedState |-> FALSE, depth |-> 0, camera |-> NoCamera,
                 lightList |-> <<>>, culled |-> {}, stateset |-> -1,
                 nodeBound |-> [center |-> 0, radius |-> 0]]
NotBuilt == Position("new")
Idle == Position("idle")

\* The scene before any LightSource or LightListCallback is constructed.
NewScene ==
    /\ sLightId = 0
    /\ mId = <<>>
    /\ origin = <<>>
    /\ mCollectManager = [lightSource \in Lights |-> NoManager]
    /\ mLightManager = NoManager
    /\ mLastFrameNumber = 0
    /\ mLightList = <<>>
    /\ mIgnoredLightSources = {}
    /\ stateSetStack = <<>>
    /\ pc = NotBuilt
    /\ queried = [frameNum \in 0 .. MaxFrame |-> 0]
    /\ mCullFrameNumber = 0
    /\ invoked = [frameNum \in 0 .. MaxFrame |-> 0]
    /\ refreshed = [frameNum \in 0 .. MaxFrame |-> 0]

\* The tier the constructor selects and the settings updateSettings reads.
Init ==
    /\ mLightingMethod \in Methods
    /\ mMaxLights = IF mLightingMethod = "FFP" THEN FFPMaxLights ELSE TargetLights
    /\ mStartLight = 0
    /\ mPointLightRadiusMultiplier = 1
    /\ mPointLightFadeEnd = (IF mLightingMethod = "FFP" THEN 0 ELSE FadeEndSetting)
    /\ mPointLightFadeStart = mPointLightFadeEnd \div 2
    /\ mLight = [id \in Lights |-> [g \in 0 .. 1 |-> NewLight]]
    /\ mLights = <<>>
    /\ mLightsInViewSpace = EmptyMap
    /\ mLightIndexMaps = [g \in 0 .. 1 |-> EmptyMap]
    /\ mStateSetCache = [g \in 0 .. 1 |-> EmptyMap]
    /\ mLightBuffers = [g \in 0 .. 1 |->
            IF mLightingMethod = "SingleUBO" THEN NewLightBuffer(getMaxLightsInScene)
            ELSE EmptyMap]
    /\ frameNumber = 0
    /\ nextStateSet = 0
    /\ lastCall = Call("LightManager", 0, NoCamera, <<>>, <<>>, -1, FALSE)
    /\ seenIds = [g \in 0 .. 1 |-> <<>>]
    /\ issued = [g \in 0 .. 1 |-> EmptyMap]
    /\ camFrame = [c \in SceneCameras |-> -1]
    /\ mStateSetGenerator = setLightingMethod(mLightingMethod)
    /\ mLightingMask = FullMask
    /\ mSun = NoSun
    /\ settings = Settings(TargetLights, FadeEndSetting)
    /\ mData = [g \in 0 .. 1 |->
            IF mLightingMethod = "SingleUBO" THEN NewData(getMaxLightsInScene)
            ELSE EmptyMap]
    /\ mOffsets = [g \in 0 .. 1 |-> DefaultOffsets]
    /\ mCachedSunPos = [g \in 0 .. 1 |-> <<0, 0, 0, 0>>]
    /\ mInitLayout = FALSE
    /\ configured = [g \in 0 .. 1 |-> 0]
    /\ observed = FALSE
    /\ NewScene

\* ------------------------------------------------------------------ update
\* Variant of cleanupStateSetCache that also empties a cache holding exactly
\* the threshold.
cleanupStateSetCache_AtLimit(cache) ==
    IF Cardinality(DOMAIN cache) >= OrphanLimit THEN EmptyMap ELSE cache

\* The orphan cleanup of update for one generation's cache.
cleanupStateSetCache(cache) ==
    IF Cardinality(DOMAIN cache) > OrphanLimit THEN EmptyMap ELSE cache

\* Variant of clearFrameData that leaves the index map alone.
clearFrameData_KeepIndexMap(frameNum) ==
    /\ mLightIndexMaps' = mLightIndexMaps
    /\ mLights' = <<>>
    /\ mLightsInViewSpace' = EmptyMap

\* Variant of clearFrameData that leaves the view-space cache alone.
clearFrameData_KeepViewSpace(frameNum) ==
    /\ mLightIndexMaps' = [mLightIndexMaps EXCEPT ![Generation(frameNum)] = EmptyMap]
    /\ mLights' = <<>>
    /\ mLightsInViewSpace' = mLightsInViewSpace

\* The per-frame containers update empties: the index map of the frame's
\* generation, the collected lights and the view-space cache of every camera.
clearFrameData(frameNum) ==
    /\ mLightIndexMaps' = [mLightIndexMaps EXCEPT ![Generation(frameNum)] = EmptyMap]
    /\ mLights' = <<>>
    /\ mLightsInViewSpace' = EmptyMap

\* LightManager::update(frameNum), called by LightManagerUpdateCallback with the
\* traversal number of the frame that starts.
update(frameNum) ==
    /\ frameNum = frameNumber + 1
    /\ frameNum <= MaxFrame
    /\ frameNumber' = frameNum
    /\ clearFrameData(frameNum)
    /\ mStateSetCache' = [g \in 0 .. 1 |-> cleanupStateSetCache(mStateSetCache[g])]
    /\ lastCall' = Call("update", frameNum, NoCamera, <<>>, <<>>, -1, FALSE)
    /\ seenIds' = [seenIds EXCEPT ![Generation(frameNum)] = <<>>]
    /\ issued' = [g \in 0 .. 1 |->
            IF mStateSetCache'[g] = EmptyMap THEN EmptyMap ELSE issued[g]]
    /\ UNCHANGED <<config, others, mLight, mLightBuffers, nextStateSet, camFrame>>

\* ---------------------------------------------------------------- addLight
\* Variant of appendLight that keeps one entry per LightSource.
appendLight_Dedup(lights, l) ==
    IF \E i \in 1 .. Len(lights) : lights[i].mLightSource = l.mLightSource
    THEN lights ELSE Append(lights, l)

\* mLights.push_back(l)
appendLight(lights, l) == Append(lights, l)

\* LightManager::addLight(lightSource, worldMat, frameNum)
addLight(lightSource, worldMat, frameNum) ==
    /\ Len(mLights) < MaxCollected
    /\ mLight' = [mLight EXCEPT ![lightSource][Generation(frameNum)].position = worldMat]
    /\ mLights' = appendLight(mLights, [mLightSource |-> lightSource, mWorldMatrix |-> worldMat])
    /\ lastCall' = Call("addLight", frameNum, NoCamera, <<lightSource>>, <<>>, -1, FALSE)
    /\ UNCHANGED <<config, others, mLightsInViewSpace, mLightIndexMaps, mStateSetCache,
                   mLightBuffers, frameNumber, nextStateSet, seenIds, issued, camFrame>>

\* ------------------------------------------------------ getLightsInViewSpace
\* Variant of isReflectionCamera that takes every camera for a main camera.
isReflectionCamera_Never(camera) == FALSE

\* isReflectionCamera
isReflectionCamera(camera) == camera = "ReflectionCamera"

\* Variant of fadeNumerator that measures the fade from distance zero.
fadeNumerator_FromZero(len) ==
    LET fadeDelta == mPointLightFadeEnd - mPointLightFadeStart
    IN fadeDelta - clamp(len, 0, fadeDelta)

\* The fade of a light whose view-space centre is at distance len, as the
\* numerator of the fraction fade / fadeDelta:
\* fade = 1 - clamp((len - fadeStart) / fadeDelta, 0, 1)
fadeNumerator(len) ==
    LET fadeDelta == mPointLightFadeEnd - mPointLightFadeStart
    IN fadeDelta - clamp(len - mPointLightFadeStart, 0, fadeDelta)

\* The loop over mLights of getLightsInViewSpace, from entry i on: acc.list is
\* the collection built so far, acc.light the light parameters as faded so far.
RECURSIVE collectViewBounds(_, _, _, _, _)
collectViewBounds(i, camera, viewMatrix, frameNum, acc) ==
    IF i > Len(mLights) THEN acc
    ELSE
      LET transform == mLights[i]
          worldViewMat == transform.mWorldMatrix + viewMatrix
          radius == getRadius(transform.mLightSource)
          viewBound == [center |-> worldViewMat,
                        radius |-> radius * mPointLightRadiusMultiplier]
          fading == ~isReflectionCamera(camera) /\ mPointLightFadeEnd # 0
          fadeDelta == mPointLightFadeEnd - mPointLightFadeStart
          fade == fadeNumerator(Abs(viewBound.center))
          g == Generation(frameNum)
          id == transform.mLightSource
          l == [mLightSource |-> id, mViewBound |-> viewBound]
      IN IF fading /\ fade = 0
         THEN collectViewBounds(i + 1, camera, viewMatrix, frameNum, acc)
         ELSE collectViewBounds(i + 1, camera, viewMatrix, frameNum,
                [list |-> Append(acc.list, l),
                 light |-> IF fading
                           THEN [acc.light EXCEPT ![id][g].diffuse =
                                    (acc.light[id][g].diffuse * fade) \div fadeDelta]
                           ELSE acc.light])

\* Variant of proximityKey that compares the squared distances alone.
proximityKey_DistanceOnly(l) == l.mViewBound.center * l.mViewBound.center

\* The comparison key of the sorter of getLightsInViewSpace:
\* center().length2() - radius2()
proximityKey(l) ==
    (l.mViewBound.center * l.mViewBound.center) - (l.mViewBound.radius * l.mViewBound.radius)

\* The orders std::sort can leave seq in under the sorter (equal keys may end
\* in either order).
sortedByProximity(seq) ==
    { [i \in 1 .. Len(seq) |-> seq[p[i]]] : p \in
        { q \in Permutations(1 .. Len(seq)) :
            \A i \in 1 .. (Len(seq) - 1) :
                ~(proximityKey(seq[q[i + 1]]) < proximityKey(seq[q[i]])) } }

\* Variant of truncateToCapacity that sorts from begin() instead of begin() + 1.
truncateToCapacity_SortAll(list) ==
    IF mLightingMethod = "SingleUBO" /\ Len(list) > getMaxLightsInScene - 1
    THEN { SubSeq(sorted, 1, getMaxLightsInScene - 1) :
              sorted \in sortedByProximity(list) }
    ELSE {list}

\* The sort and erase of lines 1245-1252 for a scene capacity of
\* maxLightsInScene: std::sort(begin() + 1, end(), sorter), then
\* erase((begin() + 1) + (maxLightsInScene - 2), end()).
sortAndErase(list, maxLightsInScene) ==
    IF Len(list) > maxLightsInScene - 1
    THEN { SubSeq(<<list[1]>> \o sorted, 1, 1 + (maxLightsInScene - 2)) :
              sorted \in sortedByProximity(Tail(list)) }
    ELSE {list}

\* The SingleUBO truncation at the end of getLightsInViewSpace: the set of
\* collections it can leave in the cache entry.
truncateToCapacity(list) ==
    IF mLightingMethod = "SingleUBO"
    THEN sortAndErase(list, getMaxLightsInScene)
    ELSE {list}

\* Variant of hasViewEntry that never finds the camera.
hasViewEntry_Never(camera) == FALSE

\* Whether the camera has an entry in mLightsInViewSpace (the find of line 1208).
hasViewEntry(camera) == camera \in DOMAIN mLightsInViewSpace

\* LightManager::getLightsInViewSpace(camera, viewMatrix, frameNum); the
\* collection returned is mLightsInViewSpace'[camera].
getLightsInViewSpace(camera, viewMatrix, frameNum) ==
    LET hit == hasViewEntry(camera)
        built == IF hit
                 THEN [list |-> mLightsInViewSpace[camera], light |-> mLight]
                 ELSE collectViewBounds(1, camera, viewMatrix, frameNum,
                                        [list |-> <<>>, light |-> mLight])
    IN /\ \E result \in truncateToCapacity(built.list) :
            mLightsInViewSpace' =
                [c \in (DOMAIN mLightsInViewSpace) \cup {camera} |->
                    IF c = camera THEN result ELSE mLightsInViewSpace[c]]
       /\ mLight' = built.light
       /\ lastCall' = Call("getLightsInViewSpace", frameNum, camera, <<>>, <<>>, -1, hit)
       /\ camFrame' = [camFrame EXCEPT ![camera] = frameNum]
       /\ UNCHANGED <<config, others, mLights, mLightIndexMaps, mStateSetCache, mLightBuffers,
                      frameNumber, nextStateSet, seenIds, issued>>

\* ------------------------------------------------------ getLightListStateSet
\* The light ids of a light list, in list order.
idsOf(lightList) == [i \in 1 .. Len(lightList) |-> lightList[i].mLightSource]

RECURSIVE hashOfList_Unordered(_, _)
\* Variant of hashOfList that combines the ids without regard to their order.
hashOfList_Unordered(lightList, n) ==
    IF n = 0 THEN 0
    ELSE Xor(hashOfList_Unordered(lightList, n - 1),
             hashCombine(0, lightList[n].mLightSource))

\* The hash getLightListStateSet builds over the first n entries of the list.
RECURSIVE hashOfList(_, _)
hashOfList(lightList, n) ==
    IF n = 0 THEN 0
    ELSE hashCombine(hashOfList(lightList, n - 1), lightList[n].mLightSource)

\* Variant of nextIndex that numbers slots from the map's size.
nextIndex_FromSize(indexMap) == Cardinality(DOMAIN indexMap)

\* The slot given to the next light that has none: size of the index map + 1.
nextIndex(indexMap) == Cardinality(DOMAIN indexMap) + 1

\* LightManager::updateGPUPointLight(index, lightSource, frameNum, viewMatrix):
\* buf is the buffer of the frame's generation, the value its new contents.
updateGPUPointLight(buf, index, lightSource, frameNum, viewMatrix) ==
    LET light == mLight[lightSource][Generation(frameNum)]
        b1 == setDiffuse(buf, index, light.diffuse)
        b2 == setAmbient(b1, index, light.ambient)
        b3 == setAttenuationRadius(b2, index, getRadius(lightSource))
    IN setPosition(b3, index, light.position + viewMatrix)

\* The loop of getLightListStateSet over the list, from entry i on: acc.map is
\* the index map of the frame's generation, acc.buf that generation's buffer,
\* acc.slots the indices handed to updateGPUPointLight.
RECURSIVE assignSlots(_, _, _, _, _)
assignSlots(i, lightList, frameNum, viewMatrix, acc) ==
    IF i > Len(lightList) THEN acc
    ELSE
      LET id == lightList[i].mLightSource
      IN IF mLightingMethod # "SingleUBO" \/ id \in DOMAIN acc.map
         THEN assignSlots(i + 1, lightList, frameNum, viewMatrix, acc)
         ELSE
           LET index == nextIndex(acc.map)
           IN assignSlots(i + 1, lightList, frameNum, viewMatrix,
                  [map |-> acc.map @@ (id :> index),
                   buf |-> updateGPUPointLight(acc.buf, index, id, frameNum, viewMatrix),
                   slots |-> Append(acc.slots, index)])

\* ------------------------------------------------------ state-set generators
\* A StateSet object: obj is its identity, lights the osg::Light copies an FFP
\* or per-object attribute holds (light id and generation), start the first
\* light unit (FFP), count the PointLightCount uniform, indices the
\* PointLightIndex uniform array.
StateSet(obj, lights, start, count, indices) ==
    [obj |-> obj, lights |-> lights, start |-> start, count |-> count, indices |-> indices]

\* The osg::Light copies of the list for the frame: getLight(frameNum) of each.
lightCopies(lightList, frameNum) ==
    [i \in 1 .. Len(lightList) |-> <<lightList[i].mLightSource, Generation(frameNum)>>]

\* StateSetGeneratorFFP::generate
generateFFP(obj, lightList, frameNum) ==
    StateSet(obj, lightCopies(lightList, frameNum), mStartLight, 0, <<>>)

\* StateSetGeneratorPerObjectUniform::generate
generatePerObjectUniform(obj, lightList, frameNum) ==
    StateSet(obj, lightCopies(lightList, frameNum), 0, Len(lightList) + 1, <<>>)

\* StateSetGeneratorSingleUBO::generate: an array of getMaxLights() indices,
\* the first ones the slots of the list's lights in the frame's index map.
generateSingleUBO(obj, lightList, indexMap) ==
    StateSet(obj, <<>>, 0, Len(lightList),
             [i \in 1 .. mMaxLights |->
                 IF i <= Len(lightList) THEN indexMap[lightList[i].mLightSource] ELSE 0])

\* The loop of StateSetGeneratorSingleUBO::update from entry i on: acc is the
\* index array, newCount the number of entries rewritten so far.
RECURSIVE revalidateIndices(_, _, _, _, _, _)
revalidateIndices(i, oldCount, lightList, indexMap, newCount, acc) ==
    IF i > oldCount THEN [indices |-> acc, count |-> newCount]
    ELSE
      LET id == lightList[i].mLightSource
      IN IF id \in DOMAIN indexMap
         THEN revalidateIndices(i + 1, oldCount, lightList, indexMap, newCount + 1,
                                [acc EXCEPT ![newCount + 1] = indexMap[id]])
         ELSE revalidateIndices(i + 1, oldCount, lightList, indexMap, newCount, acc)

\* Variant of updateSingleUBO that leaves the cached indices as they are.
updateSingleUBO_Keep(stateset, lightList, indexMap) == stateset

\* StateSetGeneratorSingleUBO::update
updateSingleUBO(stateset, lightList, indexMap) ==
    LET oldCount == Min(mMaxLights, stateset.count)
        r == revalidateIndices(1, oldCount, lightList, indexMap, 0, stateset.indices)
    IN [stateset EXCEPT !.indices = r.indices, !.count = r.count]

\* mStateSetGenerator->generate of the tier in use
generate(obj, lightList, frameNum, indexMap) ==
    CASE mLightingMethod = "FFP" -> generateFFP(obj, lightList, frameNum)
      [] mLightingMethod = "PerObjectUniform" -> generatePerObjectUniform(obj, lightList, frameNum)
      [] OTHER -> generateSingleUBO(obj, lightList, indexMap)

\* mStateSetGenerator->update of the tier in use (a no-op but for SingleUBO)
updateStateSet(stateset, lightList, indexMap) ==
    IF mLightingMethod = "SingleUBO" THEN updateSingleUBO(stateset, lightList, indexMap)
    ELSE stateset

\* History: seen extended by the ids of the list not met before, in list order.
RECURSIVE noteIds(_, _, _)
noteIds(seen, ids, i) ==
    IF i > Len(ids) THEN seen
    ELSE noteIds(IF \E j \in 1 .. Len(seen) : seen[j] = ids[i] THEN seen
                 ELSE Append(seen, ids[i]), ids, i + 1)

\* Variant of cacheGeneration that picks the other generation.
cacheGeneration_Other(frameNum) == (frameNum + 1) % 2

\* The generation of mStateSetCache that getLightListStateSet reads and writes.
cacheGeneration(frameNum) == frameNum % 2

\* Variant of findStateSet that never finds the hash.
findStateSet_Never(cache, hash) == FALSE

\* stateSetCache.find(hash) != stateSetCache.end()
findStateSet(cache, hash) == hash \in DOMAIN cache

\* LightManager::getLightListStateSet(lightList, frameNum, viewMatrix)
getLightListStateSet(lightList, frameNum, viewMatrix) ==
    LET g == Generation(frameNum)
        c == cacheGeneration(frameNum)
        hash == hashOfList(lightList, Len(lightList))
        assigned == assignSlots(1, lightList, frameNum, viewMatrix,
                        [map |-> mLightIndexMaps[g], buf |-> mLightBuffers[g], slots |-> <<>>])
        found == findStateSet(mStateSetCache[c], hash)
        stateset == IF found
                    THEN updateStateSet(mStateSetCache[c][hash], lightList, assigned.map)
                    ELSE generate(nextStateSet, lightList, frameNum, assigned.map)
        ids == idsOf(lightList)
    IN /\ found \/ nextStateSet < MaxStateSets
       /\ mLightIndexMaps' = [mLightIndexMaps EXCEPT ![g] = assigned.map]
       /\ mLightBuffers' = [mLightBuffers EXCEPT ![g] = assigned.buf]
       /\ mStateSetCache' = [mStateSetCache EXCEPT ![c] =
                [h \in (DOMAIN mStateSetCache[c]) \cup {hash} |->
                    IF h = hash THEN stateset ELSE mStateSetCache[c][h]]]
       /\ nextStateSet' = IF found THEN nextStateSet ELSE nextStateSet + 1
       /\ lastCall' = Call("getLightListStateSet", frameNum, NoCamera, ids,
                           assigned.slots, stateset.obj, found)
       /\ seenIds' = [seenIds EXCEPT ![g] =
                IF mLightingMethod = "SingleUBO" THEN noteIds(@, ids, 1) ELSE @]
       /\ issued' = [issued EXCEPT ![c] =
                [k \in (DOMAIN issued[c]) \cup {ids} |->
                    IF k = ids THEN stateset.obj ELSE issued[c][k]]]
       /\ UNCHANGED <<config, others, mLight, mLights, mLightsInViewSpace, frameNumber, camFrame>>


\* -------------------------------------------------------------------- Next
\* The light lists a cull callback can hand to getLightListStateSet for a
\* camera: entries of the camera's view-space collection, each at most once,
\* at most getMaxLights() - getStartLight() of them, in any order.
LightLists(camera) ==
    LET coll == mLightsInViewSpace[camera]
        budget == Min(Len(coll), mMaxLights - mStartLight)
    IN UNION { { [i \in 1 .. n |-> coll[f[i]]] :
                   f \in { h \in [1 .. n -> 1 .. Len(coll)] :
                             \A a, b \in 1 .. n : a # b => h[a] # h[b] } } :
               n \in 1 .. budget }

\* The calls of the frames of a scene that the main camera alone draws.
Next ==
    \/ UNCHANGED scene /\ update(frameNumber + 1)
    \/ UNCHANGED scene /\ \E lightSource \in Lights :
          addLight(lightSource, WorldMatrixOf[lightSource], frameNumber)
    \/ UNCHANGED scene /\
          getLightsInViewSpace("MainCamera", ViewMatrixOf["MainCamera"], frameNumber)
    \/ UNCHANGED scene /\ \E camera \in DOMAIN mLightsInViewSpace :
          \E lightList \in LightLists(camera) :
             getLightListStateSet(lightList, frameNumber, ViewMatrixOf[camera])

Spec == Init /\ [][Next]_vars

\* The same calls in a scene that the reflection camera draws too.
NextReflection ==
    \/ UNCHANGED scene /\ update(frameNumber + 1)
    \/ UNCHANGED scene /\ \E lightSource \in Lights :
          addLight(lightSource, WorldMatrixOf[lightSource], frameNumber)
    \/ UNCHANGED scene /\ \E camera \in Cameras :
          getLightsInViewSpace(camera, ViewMatrixOf[camera], frameNumber)
    \/ UNCHANGED scene /\ \E camera \in DOMAIN mLightsInViewSpace :
          \E lightList \in LightLists(camera) :
             getLightListStateSet(lightList, frameNumber, ViewMatrixOf[camera])

\* The manager constructed in the PerObjectUniform tier.
InitPerObjectUniform == Init /\ mLightingMethod = "PerObjectUniform"

\* The manager constructed in the SingleUBO tier.
InitSingleUBO == Init /\ mLightingMethod = "SingleUBO"

SpecSingleUBO == InitSingleUBO /\ [][NextReflection]_vars

\* The collection and view-space phases alone, over the frames before
\* MaxFrame, with LightSource nodes placed at the main camera or anywhere from
\* its fade start to its fade end.
Positions == {0} \cup ((FadeEndSetting \div 2) .. FadeEndSetting)

NextView ==
    \/ UNCHANGED scene /\ frameNumber + 1 < MaxFrame /\ update(frameNumber + 1)
    \/ UNCHANGED scene /\ \E lightSource \in Lights, worldMat \in Positions :
          addLight(lightSource, worldMat, frameNumber)
    \/ UNCHANGED scene /\ \E camera \in Cameras :
          getLightsInViewSpace(camera, ViewMatrixOf[camera], frameNumber)

SpecView == Init /\ [][NextView]_vars

\* The same phases, over the same frames, in a scene whose lists are computed
\* for the main camera and for a second camera that is no reflection camera.
NextFade ==
    \/ UNCHANGED scene /\ frameNumber + 1 < MaxFrame /\ update(frameNumber + 1)
    \/ UNCHANGED scene /\ \E lightSource \in Lights, worldMat \in Positions :
          addLight(lightSource, worldMat, frameNumber)
    \/ UNCHANGED scene /\ \E camera \in SceneCameras \ {"ReflectionCamera"} :
          getLightsInViewSpace(camera, ViewMatrixOf[camera], frameNumber)

SpecFade == InitPerObjectUniform /\ [][NextFade]_vars

\* ------------------------------------------------------- the truncation
\* The sort and erase of getLightsInViewSpace applied to collections of up to
\* MaxEntries view bounds, for scene capacities up to MaxCapacity.
ViewBounds == [center : 0 .. MaxCentre, radius : LightRadius .. (LightRadius + 1)]

\* The collections of n entries; the i-th entry belongs to light source i - 1.
Collections(n) ==
    { [i \in 1 .. n |-> [mLightSource |-> i - 1, mViewBound |-> b[i]]] :
        b \in [1 .. n -> ViewBounds] }

\* The entries lines 1212-1240 push into the new cache entry of a camera,
\* before the truncation looks at it.
collectEntries(camera, list, maxLightsInScene) ==
    /\ mLightingMethod = "SingleUBO"
    /\ ~hasViewEntry(camera)
    /\ mLightsInViewSpace' =
          [c \in (DOMAIN mLightsInViewSpace) \cup {camera} |->
              IF c = camera THEN list ELSE mLightsInViewSpace[c]]
    /\ lastCall' = Call("collectEntries", frameNumber, camera, idsOf(list), <<>>, -1, FALSE)
                   @@ [list |-> list, maxLightsInScene |-> maxLightsInScene]
    /\ UNCHANGED <<config, others, mLight, mLights, mLightIndexMaps, mStateSetCache,
                   mLightBuffers, frameNumber, nextStateSet, seenIds, issued, camFrame>>

\* Lines 1243-1253 on the cache entry the camera has just been given.
truncateCollection(camera) ==
    /\ mLightingMethod = "SingleUBO"
    /\ lastCall.op = "collectEntries"
    /\ lastCall.camera = camera
    /\ \E result \in sortAndErase(mLightsInViewSpace[camera], lastCall.maxLightsInScene) :
          /\ mLightsInViewSpace' = [mLightsInViewSpace EXCEPT ![camera] = result]
          /\ lastCall' = Call("sortAndErase", frameNumber, camera, idsOf(result),
                              <<>>, -1, FALSE)
                         @@ [list |-> lastCall.list,
                             maxLightsInScene |-> lastCall.maxLightsInScene]
    /\ UNCHANGED <<config, others, mLight, mLights, mLightIndexMaps, mStateSetCache,
                   mLightBuffers, frameNumber, nextStateSet, seenIds, issued, camFrame>>

NextTruncation ==
    \/ UNCHANGED scene /\ ~hasViewEntry("MainCamera") /\
          \E n \in 0 .. MaxEntries, maxLightsInScene \in 2 .. MaxCapacity :
             \E list \in Collections(n) :
                collectEntries("MainCamera", list, maxLightsInScene)
    \/ UNCHANGED scene /\ truncateCollection("MainCamera")

SpecTruncation == InitSingleUBO /\ [][NextTruncation]_vars

\* ------------------------------------------------- construction and settings
\* Values of the "lighting method" setting: the three known ones, one that
\* differs in case and an empty one.
MethodStrings == {"legacy", "shaders compatibility", "shaders", "Shaders", ""}

\* Values of the "max lights" setting: below, within and above the limits.
MaxLightsSettings == (MaxLightsLowerLimit - 1) .. (MaxLightsUpperLimit + 1)

\* LightManager::LightManager(ffp), with what it reads from the driver
\* (supportsUBO, supportsGPU4) and from the settings store. The call record
\* keeps the arguments and the method getLightingMethodFromString returned.
LightManager(ffp, supportsUBO, supportsGPU4, lightingMethodString, maxLights) ==
    LET lightingMethod == IF ffp THEN "none"
                          ELSE getLightingMethodFromString(lightingMethodString)
        method == selectLightingMethod(ffp, supportsUBO, supportsGPU4, lightingMethod)
    IN /\ mLightingMethod = method
       /\ mStateSetGenerator = setLightingMethod(method)
       /\ mMaxLights = (IF ffp THEN FFPMaxLights ELSE getTargetLights(maxLights))
       /\ mStartLight = 0
       /\ mLightingMask = FullMask
       /\ mSun = NoSun
       /\ mPointLightRadiusMultiplier = 1
       /\ mPointLightFadeEnd = (IF ffp THEN 0 ELSE FadeEndSetting)
       /\ mPointLightFadeStart = mPointLightFadeEnd \div 2
       /\ settings = Settings(maxLights, FadeEndSetting)
       /\ mLight = [id \in Lights |-> [g \in 0 .. 1 |-> NewLight]]
       /\ mLights = <<>>
       /\ mLightsInViewSpace = EmptyMap
       /\ mLightIndexMaps = [g \in 0 .. 1 |-> EmptyMap]
       /\ mStateSetCache = [g \in 0 .. 1 |-> EmptyMap]
       /\ mLightBuffers = [g \in 0 .. 1 |->
               IF method = "SingleUBO" THEN NewLightBuffer(getMaxLightsInScene)
               ELSE EmptyMap]
       /\ frameNumber = 0
       /\ nextStateSet = 0
       /\ lastCall = Call("LightManager", 0, NoCamera, <<>>, <<>>, -1, FALSE) @@
                     [ffp |-> ffp, supportsUBO |-> supportsUBO,
                      supportsGPU4 |-> supportsGPU4,
                      lightingMethodString |-> lightingMethodString,
                      lightingMethod |-> lightingMethod]
       /\ seenIds = [g \in 0 .. 1 |-> <<>>]
       /\ issued = [g \in 0 .. 1 |-> EmptyMap]
       /\ camFrame = [c \in SceneCameras |-> -1]
       /\ mData = [g \in 0 .. 1 |->
               IF mLightingMethod = "SingleUBO" THEN NewData(getMaxLightsInScene)
               ELSE EmptyMap]
       /\ mOffsets = [g \in 0 .. 1 |-> DefaultOffsets]
       /\ mCachedSunPos = [g \in 0 .. 1 |-> <<0, 0, 0, 0>>]
       /\ mInitLayout = FALSE
       /\ configured = [g \in 0 .. 1 |-> 0]
       /\ observed = FALSE
       /\ NewScene

InitSettings ==
    \E ffp \in BOOLEAN, supportsUBO \in BOOLEAN, supportsGPU4 \in BOOLEAN,
       lightingMethodString \in MethodStrings, maxLights \in MaxLightsSettings :
          LightManager(ffp, supportsUBO, supportsGPU4, lightingMethodString, maxLights)

\* Settings::Manager::setInt("max lights", value): the user changes the setting.
setInt(value) ==
    /\ settings' = [settings EXCEPT !["max lights"] = value]
    /\ lastCall' = Call("setInt", frameNumber, NoCamera, <<>>, <<>>, -1, FALSE)
    /\ UNCHANGED <<config, mLight, mLights, mLightsInViewSpace, mLightIndexMaps,
                   mStateSetCache, mLightBuffers, frameNumber, nextStateSet, seenIds,
                   issued, camFrame, mStateSetGenerator, mLightingMask, mSun, layout>>

\* LightStateAttributePerObjectUniform::resize
resizePerObjectUniform(stateset, numLights) ==
    [stateset EXCEPT !.lights = SubSeq(@, 1, Min(numLights, Len(@)))]

\* The SingleUBO branch of updateMaxLights for one cached state set: the
\* count lowered to the cap and the index array resized to the new count.
resizeSingleUBO(stateset, maxLights) ==
    LET newCount == Min(maxLights, stateset.count)
    IN [stateset EXCEPT !.count = newCount,
                        !.indices = [i \in 1 .. newCount |->
                                        IF i <= Len(@) THEN @[i] ELSE 0]]

\* The state sets of both caches as updateMaxLights leaves them.
resizeCached(method, maxLights) ==
    UNION { { IF method = "PerObjectUniform"
              THEN resizePerObjectUniform(mStateSetCache[g][h], maxLights)
              ELSE resizeSingleUBO(mStateSetCache[g][h], maxLights) :
                 h \in DOMAIN mStateSetCache[g] } : g \in 0 .. 1 }

\* LightManager::updateMaxLights. The call record keeps the state sets the
\* call resized before it cleared the caches: the scene still draws them.
updateMaxLights ==
    LET targetLights == getTargetLights(settings["max lights"])
        call == Call("updateMaxLights", frameNumber, NoCamera, <<>>, <<>>, -1, FALSE)
    IN IF mLightingMethod = "FFP"
       THEN /\ lastCall' = call @@ [statesets |-> {}]
            /\ UNCHANGED <<config, others, mLight, mLights, mLightsInViewSpace,
                           mLightIndexMaps, mStateSetCache, mLightBuffers, frameNumber,
                           nextStateSet, seenIds, issued, camFrame>>
       ELSE /\ mMaxLights' = targetLights
            /\ mStateSetCache' = [g \in 0 .. 1 |-> EmptyMap]
            /\ issued' = [g \in 0 .. 1 |-> EmptyMap]
            /\ lastCall' = call @@
                     [statesets |-> resizeCached(mLightingMethod, targetLights)]
            /\ UNCHANGED <<mLightingMethod, mStartLight, mPointLightRadiusMultiplier,
                           mPointLightFadeEnd, mPointLightFadeStart, others, mLight,
                           mLights, mLightsInViewSpace, mLightIndexMaps, mLightBuffers,
                           frameNumber, nextStateSet, seenIds, camFrame>>

\* Variant of updateSettings that selects the tier again from the settings.
updateSettings_Reinit(caller) ==
    /\ mLightingMethod' = "PerObjectUniform"
    /\ mStateSetGenerator' = setLightingMethod("PerObjectUniform")
    /\ lastCall' = Call(caller, frameNumber, NoCamera, <<>>, <<>>, -1, FALSE)
    /\ UNCHANGED <<mMaxLights, mStartLight, mPointLightRadiusMultiplier,
                   mPointLightFadeEnd, mPointLightFadeStart, mLight, mLights,
                   mLightsInViewSpace, mLightIndexMaps, mStateSetCache, mLightBuffers,
                   frameNumber, nextStateSet, seenIds, issued, camFrame,
                   mLightingMask, mSun, settings, layout>>

\* LightManager::updateSettings, called by caller: the radius multiplier and
\* the fade distances read again from the settings store.
updateSettings(caller) ==
    LET fadeEnd == IF settings["maximum light distance"] < 0 THEN 0
                   ELSE settings["maximum light distance"]
    IN /\ IF mLightingMethod = "FFP"
          THEN UNCHANGED <<mPointLightRadiusMultiplier, mPointLightFadeEnd,
                           mPointLightFadeStart>>
          ELSE /\ mPointLightRadiusMultiplier' = clamp(1, 0, 5)
               /\ mPointLightFadeEnd' = fadeEnd
               /\ mPointLightFadeStart' =
                     (IF fadeEnd > 0 THEN fadeEnd \div 2 ELSE mPointLightFadeStart)
       /\ lastCall' = Call(caller, frameNumber, NoCamera, <<>>, <<>>, -1, FALSE)
       /\ UNCHANGED <<mLightingMethod, mMaxLights, mStartLight, others, mLight, mLights,
                      mLightsInViewSpace, mLightIndexMaps, mStateSetCache, mLightBuffers,
                      frameNumber, nextStateSet, seenIds, issued, camFrame>>

\* LightManager::processChangedSettings
processChangedSettings == updateSettings("processChangedSettings")

\* LightManager::setStartLight
setStartLight(start) ==
    /\ mStartLight' = start
    /\ lastCall' = Call("setStartLight", frameNumber, NoCamera, <<>>, <<>>, -1, FALSE)
    /\ UNCHANGED <<mLightingMethod, mMaxLights, mPointLightRadiusMultiplier,
                   mPointLightFadeEnd, mPointLightFadeStart, others, mLight, mLights,
                   mLightsInViewSpace, mLightIndexMaps, mStateSetCache, mLightBuffers,
                   frameNumber, nextStateSet, seenIds, issued, camFrame>>

\* LightManager::setSunlight
setSunlight(sun) ==
    /\ mSun' = (IF mLightingMethod = "FFP" THEN mSun ELSE sun)
    /\ lastCall' = Call("setSunlight", frameNumber, NoCamera, <<>>, <<>>, -1, FALSE)
    /\ UNCHANGED <<config, mLight, mLights, mLightsInViewSpace, mLightIndexMaps,
                   mStateSetCache, mLightBuffers, frameNumber, nextStateSet, seenIds,
                   issued, camFrame, mStateSetGenerator, mLightingMask, settings, layout>>

\* LightManager::setLightingMask
setLightingMask(mask) ==
    /\ mLightingMask' = mask
    /\ lastCall' = Call("setLightingMask", frameNumber, NoCamera, <<>>, <<>>, -1, FALSE)
    /\ UNCHANGED <<config, mLight, mLights, mLightsInViewSpace, mLightIndexMaps,
                   mStateSetCache, mLightBuffers, frameNumber, nextStateSet, seenIds,
                   issued, camFrame, mStateSetGenerator, mSun, settings, layout>>

\* The light list a cull callback builds for a camera when every light of
\* the camera's collection reaches the node: the first
\* getMaxLights() - getStartLight() entries, in the order collected.
FullLightList(camera) ==
    LET coll == mLightsInViewSpace[camera]
    IN SubSeq(coll, 1, Min(Len(coll), mMaxLights - mStartLight))

\* The calls of the scene's set-up and of the settings window, between the
\* calls of the first MaxFrame frames of a scene drawn by the reflection
\* camera whose LightSource nodes are visited in the order of their ids.
NextSettings ==
    \/ UNCHANGED scene /\ frameNumber + 1 < MaxFrame /\ update(frameNumber + 1)
    \/ UNCHANGED scene /\ \E lightSource \in Lights :
          /\ lightSource = Len(mLights)
          /\ addLight(lightSource, WorldMatrixOf[lightSource], frameNumber)
    \/ UNCHANGED scene /\ getLightsInViewSpace("ReflectionCamera", ViewMatrixOf["ReflectionCamera"],
                            frameNumber)
    \/ UNCHANGED scene /\ \E camera \in DOMAIN mLightsInViewSpace :
          /\ FullLightList(camera) # <<>>
          /\ getLightListStateSet(FullLightList(camera), frameNumber,
                                  ViewMatrixOf[camera])
    \/ UNCHANGED scene /\ \E value \in MaxLightsSettings : setInt(value)
    \/ UNCHANGED scene /\ updateMaxLights
    \/ UNCHANGED scene /\ updateSettings("updateSettings")
    \/ UNCHANGED scene /\ processChangedSettings
    \/ UNCHANGED scene /\ \E start \in 0 .. 1 : setStartLight(start)
    \/ UNCHANGED scene /\ \E sun \in {NoSun, "sun"} : setSunlight(sun)
    \/ UNCHANGED scene /\ \E mask \in {FullMask, 1} : setLightingMask(mask)

SpecSettings == InitSettings /\ [][NextSettings]_vars

\* -------------------------------------------------- the light buffers' layout
\* The buffer objects of the two generations as configureLayout takes them.
bufferOf(g) == [mData |-> mData[g], mOffsets |-> mOffsets[g]]

\* The four floats at float index at
loadVec4(data, at) == <<data[at], data[at + 1], data[at + 2], data[at + 3]>>

\* What a reader of record index finds through the buffer's layout: the
\* colour words, the position and the attenuation with the radius.
readRecord(buffer, index) ==
    [colours |-> [slot \in {"Diffuse", "Ambient", "Specular", "DiffuseSign"} |->
                    buffer.mData[get(buffer.mOffsets, index, slot)]],
     position |-> loadVec4(buffer.mData, get(buffer.mOffsets, index, "Position")),
     attenuationRadius |->
        loadVec4(buffer.mData, get(buffer.mOffsets, index, "AttenuationRadius"))]

\* The records below the buffer's count as a reader finds them.
readBack(buffer, count) == [index \in 0 .. (count - 1) |-> readRecord(buffer, index)]

\* Diffuse colours of point lights: one with a negative red, one with a
\* negative green (the sun's diffuse colour has no negative component).
Colours ==
    { <<-ChannelMax, ChannelMax, ChannelMax, ChannelMax>>,
      <<ChannelMax, -ChannelMax, ChannelMax, ChannelMax>> }

\* The sun: a direction and its colours.
Sunlight == [position |-> <<1, 0, 0, 0>>,
             ambient |-> <<1, 1, 1, ChannelMax>>,
             diffuse |-> <<ChannelMax, ChannelMax, ChannelMax, ChannelMax>>,
             specular |-> <<ChannelMax, 0, 0, ChannelMax>>]

\* The layouts a driver reports for the block of the probe shader: packedColors,
\* position and attenuation in the order declared, each of one vec4, with or
\* without padding between them, and an array stride of zero or one vec4.
DriverLayouts ==
    LET vec4 == sizeofFloat * num_components
    IN { [offsetColors |-> 0,
          offsetPosition |-> vec4 + padding,
          offsetAttenuationRadius |-> 2 * vec4 + 2 * padding,
          stride |-> stride,
          totalBlockSize |-> (3 * vec4 + 2 * padding + stride) * getMaxLightsInScene] :
            padding \in {0, vec4}, stride \in {0, vec4} }

\* LightManagerCullCallback::operator() in the SingleUBO tier with a sun set:
\* the sun goes to record 0 of the buffer of the frame.
cullCallback(sun, frameNum) ==
    LET g == Generation(frameNum)
        d1 == packAmbient(mData[g], mOffsets[g], 0, sun.ambient)
        d2 == packDiffuse(d1, mOffsets[g], 0, sun.diffuse)
    IN /\ mLightingMethod = "SingleUBO"
       /\ mCachedSunPos' = [mCachedSunPos EXCEPT ![g] = sun.position]
       /\ mData' = [mData EXCEPT ![g] = packSpecular(d2, mOffsets[g], 0, sun.specular)]
       /\ lastCall' = Call("cullCallback", frameNum, NoCamera, <<>>, <<0>>, -1, FALSE) @@
                      [diffuse |-> sun.diffuse]
       /\ UNCHANGED <<config, mLight, mLights, mLightsInViewSpace, mLightIndexMaps,
                      mStateSetCache, mLightBuffers, frameNumber, nextStateSet, seenIds,
                      issued, camFrame, mStateSetGenerator, mLightingMask, mSun, settings,
                      mOffsets, mInitLayout, configured, observed>>

\* LightManager::updateGPUPointLight on the float array, for a light of the
\* given diffuse colour at the place of LightSource 0.
packPointLight(index, diffuse, frameNum, viewMatrix) ==
    LET g == Generation(frameNum)
        d1 == packDiffuse(mData[g], mOffsets[g], index, diffuse)
        d2 == packAmbient(d1, mOffsets[g], index, <<1, 1, 1, ChannelMax>>)
        d3 == packAttenuationRadius(d2, mOffsets[g], index, <<1, 0, 0, getRadius(0)>>)
    IN /\ mLightingMethod = "SingleUBO"
       /\ mData' = [mData EXCEPT ![g] =
                packPosition(d3, mOffsets[g], index,
                             <<WorldMatrixOf[0] + viewMatrix, 0, 0, 1>>)]
       /\ lastCall' = Call("updateGPUPointLight", frameNum, NoCamera, <<>>, <<index>>,
                           -1, FALSE) @@ [diffuse |-> diffuse]
       /\ UNCHANGED <<config, mLight, mLights, mLightsInViewSpace, mLightIndexMaps,
                      mStateSetCache, mLightBuffers, frameNumber, nextStateSet, seenIds,
                      issued, camFrame, mStateSetGenerator, mLightingMask, mSun, settings,
                      mOffsets, mCachedSunPos, mInitLayout, configured, observed>>

\* Variant of layoutPending that ignores mInitLayout.
layoutPending_Always(initLayout, activeUniformBlocks) == activeUniformBlocks > 0

\* The tests of apply that guard initSharedLayout.
layoutPending(initLayout, activeUniformBlocks) ==
    ~initLayout /\ activeUniformBlocks > 0

\* LightManagerStateAttribute::initSharedLayout: configureLayout on both
\* buffers with the layout the driver reports.
initSharedLayout(driver) ==
    [g \in 0 .. 1 |->
        configureLayout(bufferOf(g), getMaxLightsInScene, driver.offsetColors,
                        driver.offsetPosition, driver.offsetAttenuationRadius,
                        driver.totalBlockSize, driver.stride)]

\* LightManagerStateAttribute::apply for a frame, with the number of active
\* uniform blocks and the layout the driver reports for the probe program.
\* The call record keeps what a reader finds in the buffers before and after
\* the layout step, when the call takes it.
apply(frameNum, viewMatrix, activeUniformBlocks, driver) ==
    LET g == Generation(frameNum)
        pending == layoutPending(mInitLayout, activeUniformBlocks)
        laid == IF pending THEN initSharedLayout(driver)
                ELSE [h \in 0 .. 1 |-> bufferOf(h)]
        sun == mCachedSunPos[g]
        viewPos == <<sun[1] + viewMatrix * sun[4], sun[2], sun[3], sun[4]>>
    IN /\ mLightingMethod = "SingleUBO"
       /\ mData' = [h \in 0 .. 1 |->
                IF h = g
                THEN storeVec4(laid[h].mData, get(laid[h].mOffsets, 0, "Position"), viewPos)
                ELSE laid[h].mData]
       /\ mOffsets' = [h \in 0 .. 1 |-> laid[h].mOffsets]
       /\ mInitLayout' = (mInitLayout \/ pending)
       /\ configured' = [h \in 0 .. 1 |-> configured[h] + (IF pending THEN 1 ELSE 0)]
       /\ observed' = (observed \/ activeUniformBlocks > 0)
       /\ lastCall' = Call("apply", frameNum, NoCamera, <<>>, <<>>, -1, FALSE) @@
                      [activeUniformBlocks |-> activeUniformBlocks,
                       initLayout |-> mInitLayout,
                       driver |-> IF pending THEN driver ELSE <<>>,
                       before |-> IF pending
                                  THEN [h \in 0 .. 1 |->
                                          readBack(bufferOf(h), getMaxLightsInScene)]
                                  ELSE <<>>,
                       after |-> IF pending
                                 THEN [h \in 0 .. 1 |->
                                         readBack(laid[h], getMaxLightsInScene)]
                                 ELSE <<>>]
       /\ UNCHANGED <<config, mLight, mLights, mLightsInViewSpace, mLightIndexMaps,
                      mStateSetCache, mLightBuffers, frameNumber, nextStateSet, seenIds,
                      issued, camFrame, mStateSetGenerator, mLightingMask, mSun, settings,
                      mCachedSunPos>>

\* The sun and point lights packed into the buffers of frames of either
\* parity, and the state attribute applied by the draw traversal.
NextLayout ==
    \/ UNCHANGED scene /\ \E frameNum \in 0 .. 1 : cullCallback(Sunlight, frameNum)
    \/ UNCHANGED scene /\ \E frameNum \in 0 .. 1, index \in 1 .. (getMaxLightsInScene - 1),
          diffuse \in Colours :
             packPointLight(index, diffuse, frameNum, ViewMatrixOf["MainCamera"])
    \/ UNCHANGED scene /\ \E frameNum \in 0 .. 1, activeUniformBlocks \in 0 .. 1,
          driver \in DriverLayouts :
             apply(frameNum, ViewMatrixOf["MainCamera"], activeUniformBlocks, driver)

SpecLayout == InitSingleUBO /\ [][NextLayout]_vars

\* The setters of LightBuffer.
Setters == {"setDiffuse", "setAmbient", "setSpecular", "setPosition",
            "setAttenuationRadius", "uploadCachedSunPos"}

\* Values handed to the setters: a colour, its negative, a position.
SetterValues ==
    { <<ChannelMax, 1, 2, ChannelMax>>, <<-ChannelMax, -1, -2, -ChannelMax>>, <<5, 6, 7, 1>> }

\* LightBuffer::uploadCachedSunPos on the float array
uploadCachedSunPos(data, offsets, cachedSunPos, viewMat) ==
    storeVec4(data, get(offsets, 0, "Position"),
              <<cachedSunPos[1] + viewMat * cachedSunPos[4], cachedSunPos[2],
                cachedSunPos[3], cachedSunPos[4]>>)

\* One call of a setter of the light buffer of a frame, on the float array
\* and under the layout the buffer has; the call record keeps what a reader
\* finds in both buffers before and after.
callSetter(setter, frameNum, index, value) ==
    LET g == Generation(frameNum)
        data ==
            CASE setter = "setDiffuse" -> packDiffuse(mData[g], mOffsets[g], index, value)
              [] setter = "setAmbient" -> packAmbient(mData[g], mOffsets[g], index, value)
              [] setter = "setSpecular" -> packSpecular(mData[g], mOffsets[g], index, value)
              [] setter = "setPosition" -> packPosition(mData[g], mOffsets[g], index, value)
              [] setter = "setAttenuationRadius" ->
                    packAttenuationRadius(mData[g], mOffsets[g], index, value)
              [] OTHER -> uploadCachedSunPos(mData[g], mOffsets[g], mCachedSunPos[g], value[1])
    IN /\ mLightingMethod = "SingleUBO"
       /\ lastCall.op \notin Setters
       /\ setter = "uploadCachedSunPos" => index = 0
       /\ mData' = [mData EXCEPT ![g] = data]
       /\ lastCall' = Call(setter, frameNum, NoCamera, <<>>, <<index>>, -1, FALSE) @@
                      [before |-> [h \in 0 .. 1 |-> readBack(bufferOf(h), getMaxLightsInScene)],
                       after |-> [h \in 0 .. 1 |->
                                    readBack([mData |-> mData'[h], mOffsets |-> mOffsets[h]],
                                             getMaxLightsInScene)]]
       /\ UNCHANGED <<config, mLight, mLights, mLightsInViewSpace, mLightIndexMaps,
                      mStateSetCache, mLightBuffers, frameNumber, nextStateSet, seenIds,
                      issued, camFrame, mStateSetGenerator, mLightingMask, mSun, settings,
                      mOffsets, mCachedSunPos, mInitLayout, configured, observed>>

\* The buffers of a first frame, with the sun and a point light packed and
\* the layout configured or not, then one setter call on either buffer.
NextSetters ==
    \/ UNCHANGED scene /\ lastCall.op \notin Setters /\ cullCallback(Sunlight, 0)
    \/ UNCHANGED scene /\ lastCall.op \notin Setters /\
          \E index \in 1 .. (getMaxLightsInScene - 1), diffuse \in Colours :
             packPointLight(index, diffuse, 0, ViewMatrixOf["MainCamera"])
    \/ UNCHANGED scene /\ lastCall.op \notin Setters /\
          \E driver \in DriverLayouts : apply(0, ViewMatrixOf["MainCamera"], 1, driver)
    \/ UNCHANGED scene /\ \E setter \in Setters, frameNum \in 0 .. 1,
          index \in 0 .. (getMaxLightsInScene - 1), value \in SetterValues :
             callSetter(setter, frameNum, index, value)

SpecSetters == InitSingleUBO /\ [][NextSetters]_vars

\* ------------------------------------------- light sources and their callbacks
\* The manager's own state, which the scene's constructors leave alone.
manager == <<config, others, mLight, mLights, mLightsInViewSpace, mLightIndexMaps,
             mStateSetCache, mLightBuffers, frameNumber, nextStateSet, seenIds,
             issued, camFrame>>

\* Variant of assignId that leaves the counter where it was.
assignId_Keep(counter) == [mId |-> counter, sLightId |-> counter]

\* mId = sLightId++
assignId(counter) == [mId |-> counter, sLightId |-> counter + 1]

\* LightSource::LightSource()
LightSource ==
    /\ sLightId < MaxSources
    /\ mId' = Append(mId, assignId(sLightId).mId)
    /\ sLightId' = assignId(sLightId).sLightId
    /\ origin' = Append(origin, 0)
    /\ lastCall' = Call("LightSource", frameNumber, NoCamera, <<assignId(sLightId).mId>>,
                        <<>>, -1, FALSE)
    /\ UNCHANGED <<manager, mCollectManager, culling, managerCull>>

\* LightSource::LightSource(copy, copyop), copy being the copy-th LightSource
\* constructed: the id is drawn from the counter and mLight[0], mLight[1] are
\* clones of the original's (for the light sources whose parameters mLight holds).
LightSourceCopy(copy) ==
    LET id == assignId(sLightId).mId
    IN /\ sLightId < MaxSources
       /\ mId' = Append(mId, id)
       /\ sLightId' = assignId(sLightId).sLightId
       /\ origin' = Append(origin, copy)
       /\ mLight' = IF id \in Lights /\ mId[copy] \in Lights
                    THEN [mLight EXCEPT ![id] = mLight[mId[copy]]]
                    ELSE mLight
       /\ lastCall' = Call("LightSourceCopy", frameNumber, NoCamera, <<id>>, <<>>, -1, FALSE)
       /\ UNCHANGED <<config, others, mLights, mLightsInViewSpace, mLightIndexMaps,
                      mStateSetCache, mLightBuffers, frameNumber, nextStateSet, seenIds,
                      issued, camFrame, mCollectManager, culling, managerCull>>

\* The node paths a visitor can reach a LightSource or a lit node by: under
\* the LightManager, or in a subgraph that holds no manager.
NodePaths == { <<"Group", "LightManager", "Group", "Node">>, <<"Group", "Node">> }

\* findLightManager(path)
findLightManager(path) ==
    IF \E i \in 1 .. Len(path) : path[i] = "LightManager" THEN TheManager ELSE NoManager

\* Variant of resolveManager that searches the node path on every call.
resolveManager_Always(cached, path) == findLightManager(path)

\* if (!mLightManager) mLightManager = findLightManager(nv->getNodePath());
resolveManager(cached, path) ==
    IF cached = NoManager THEN findLightManager(path) ELSE cached

\* CollectLightCallback::operator()(node, nv) of the light source's callback:
\* throws when no manager is found, else registers the light with the
\* manager (LightManager::addLight) and traverses the children.
CollectLightCallback(lightSource, path, worldMat) ==
    LET found == resolveManager(mCollectManager[lightSource], path)
        call == Call("CollectLightCallback", frameNumber, NoCamera, <<lightSource>>,
                     <<>>, -1, FALSE)
    IN /\ lightSource \in { mId[k] : k \in 1 .. Len(mId) }
       /\ mCollectManager' = [mCollectManager EXCEPT ![lightSource] = found]
       /\ IF found = NoManager
          THEN /\ lastCall' = call @@ [path |-> path, thrown |-> "std::runtime_error",
                                       traversed |-> FALSE]
               /\ UNCHANGED <<mLight, mLights>>
          ELSE /\ Len(mLights) < MaxCollected
               /\ mLight' = [mLight EXCEPT
                                ![lightSource][Generation(frameNumber)].position = worldMat]
               /\ mLights' = appendLight(mLights, [mLightSource |-> lightSource,
                                                    mWorldMatrix |-> worldMat])
               /\ lastCall' = call @@ [path |-> path, thrown |-> "none",
                                       traversed |-> TRUE]
       /\ UNCHANGED <<config, others, mLightsInViewSpace, mLightIndexMaps, mStateSetCache,
                      mLightBuffers, frameNumber, nextStateSet, seenIds, issued, camFrame,
                      sLightId, mId, origin, culling, managerCull>>

\* The light state attribute classes of the file.
Attributes == {"DisableLight", "FFPLightStateAttribute",
               "LightStateAttributePerObjectUniform", "LightManagerStateAttribute"}

\* Variant of compare that orders the attributes by class name.
compare_ByName(attribute, sa) ==
    [thrown |-> "none", returns |-> TRUE,
     value |-> IF attribute = sa THEN 0 ELSE 1]

\* compare(sa) of a light state attribute: throws, returns nothing.
compare(attribute, sa) ==
    [thrown |-> "std::runtime_error", returns |-> FALSE, value |-> 0]

\* A caller compares the attribute with another state attribute.
callCompare(attribute, sa) ==
    /\ lastCall' = Call("compare", frameNumber, NoCamera, <<>>, <<>>, -1, FALSE)
                   @@ [attribute |-> attribute, sa |-> sa]
                   @@ compare(attribute, sa)
    /\ UNCHANGED <<manager, scene>>

\* The scene side over the frames before MaxFrame: nodes constructed and
\* copied, the update traversal, and callers of compare.
NextScene ==
    \/ UNCHANGED scene /\ frameNumber + 1 < MaxFrame /\ update(frameNumber + 1)
    \/ LightSource
    \/ \E copy \in 1 .. Len(mId) : LightSourceCopy(copy)
    \/ \E lightSource \in Lights, path \in NodePaths :
          CollectLightCallback(lightSource, path, WorldMatrixOf[lightSource])
    \/ \E attribute \in Attributes, sa \in Attributes : callCompare(attribute, sa)

SpecScene == Init /\ [][NextScene]_vars

\* --------------------------------------------------------- LightListCallback
\* The values mLastFrameNumber can hold after the constructor.
InitialFrameNumbers == {0, NoFrame}

\* The bounding spheres of the lit node in view space.
NodeBounds == [center : {0, 2}, radius : {LightRadius}]

\* The traversal masks of the cull visitors.
TraversalMasks == {FullMask, 2}

RECURSIVE BitAnd(_, _)
\* a & b
BitAnd(a, b) ==
    IF a = 0 \/ b = 0 THEN 0
    ELSE ((a % 2) * (b % 2)) + 2 * BitAnd(a \div 2, b \div 2)

\* osg::BoundingSphere::intersects
intersects(a, b) ==
    (a.center - b.center) * (a.center - b.center) <= (a.radius + b.radius) * (a.radius + b.radius)

\* LightListCallback::LightListCallback()
LightListCallback(lastFrameNumber) ==
    /\ pc = NotBuilt
    /\ mLightManager' = NoManager
    /\ mLastFrameNumber' = lastFrameNumber
    /\ mLightList' = <<>>
    /\ mIgnoredLightSources' = {}
    /\ pc' = Idle
    /\ lastCall' = Call("LightListCallback", frameNumber, NoCamera, <<>>, <<>>, -1, FALSE)
    /\ UNCHANGED <<manager, sources, managerCull, stateSetStack, queried>>

\* The caller marks a light source as ignored for the node
\* (getIgnoredLightSources().insert), in the update phase of a frame: before
\* the cull traversal of the frame reaches the callback.
ignoreLightSource(lightSource) ==
    /\ pc = Idle
    /\ stateSetStack = <<>>
    /\ queried[frameNumber] = 0
    /\ lightSource \notin mIgnoredLightSources
    /\ Cardinality(mIgnoredLightSources) < MaxIgnored
    /\ mIgnoredLightSources' = mIgnoredLightSources \cup {lightSource}
    /\ lastCall' = Call("ignoreLightSource", frameNumber, NoCamera, <<lightSource>>,
                        <<>>, -1, FALSE)
    /\ UNCHANGED <<manager, sources, managerCull, mLightManager, mLastFrameNumber, mLightList,
                   stateSetStack, pc, queried>>

\* The element of a camera's view-space collection a pointer of mLightList
\* points at.
pointee(ptr) == mLightsInViewSpace[ptr.camera][ptr.index]

\* Variant of listIsStale that takes the list for stale on every visit.
listIsStale_Always(last, traversalNumber) == TRUE

\* mLastFrameNumber != cv->getTraversalNumber()
listIsStale(last, traversalNumber) == last # traversalNumber

\* Variant of isIgnored that finds no light source in the set.
isIgnored_Never(lightSource, ignored) == FALSE

\* mIgnoredLightSources.count(l.mLightSource)
isIgnored(lightSource, ignored) == lightSource \in ignored

\* The loop of lines 1335-1345 over the camera's collection: pointers to the
\* entries that are not ignored and whose view bound intersects the node's.
RECURSIVE intersecting(_, _, _, _, _)
intersecting(lights, camera, i, nodeBound, ignored) ==
    IF i > Len(lights) THEN <<>>
    ELSE IF isIgnored(lights[i].mLightSource, ignored)
              \/ ~intersects(lights[i].mViewBound, nodeBound)
         THEN intersecting(lights, camera, i + 1, nodeBound, ignored)
         ELSE <<[camera |-> camera, index |-> i]>>
                 \o intersecting(lights, camera, i + 1, nodeBound, ignored)

\* LightListCallback::pushLightState up to the light list (lines 1299-1348):
\* the manager lookup, the mask test and, when the traversal number is new,
\* the refresh of mLightList from the current camera's view-space lights.
\* The traversal number is the number of the frame in progress.
pushLightState(camera, path, traversalMask, nodeBound) ==
    LET found == IF mLightManager = NoManager THEN findLightManager(path)
                 ELSE mLightManager
        returned == [Position("traverse") EXCEPT !.depth = Len(stateSetStack),
                                                 !.camera = camera,
                                                 !.nodeBound = nodeBound]
        call == Call("pushLightState", frameNumber, camera, <<>>, <<>>, -1, FALSE)
    IN /\ pc = Idle
       /\ mLightManager' = found
       /\ IF found = NoManager \/ BitAnd(traversalMask, mLightingMask) = 0
          THEN /\ pc' = returned
               /\ lastCall' = call
               /\ UNCHANGED <<manager, mLastFrameNumber, mLightList, queried>>
          ELSE /\ pc' = [returned EXCEPT !.at = "stateset"]
               /\ IF listIsStale(mLastFrameNumber, frameNumber)
                  THEN /\ mLastFrameNumber' = frameNumber
                       /\ getLightsInViewSpace(camera, ViewMatrixOf[camera], frameNumber)
                       /\ mLightList' = intersecting(mLightsInViewSpace'[camera], camera, 1,
                                                      nodeBound, mIgnoredLightSources)
                       /\ queried' = [queried EXCEPT ![frameNumber] = @ + 1]
                  ELSE /\ lastCall' = call
                       /\ UNCHANGED <<manager, mLastFrameNumber, mLightList, queried>>
       /\ UNCHANGED <<sources, managerCull, mIgnoredLightSources, stateSetStack>>

\* Variant of lightBudget that forgets the reserved leading slots.
lightBudget_NoStart(maxLights, startLight) == maxLights

\* size_t maxLights = getMaxLights() - getStartLight(): a negative difference
\* wraps to a value no list reaches.
lightBudget(maxLights, startLight) ==
    IF maxLights - startLight < 0 THEN SizeMax ELSE maxLights - startLight

\* Variant of removeCulled that erases nothing.
removeCulled_None(lightList, i, culled, maxLights) == lightList

\* The loop of lines 1359-1374 from entry i on: entries culled by the camera
\* are erased while the list is longer than maxLights.
RECURSIVE removeCulled(_, _, _, _)
removeCulled(lightList, i, culled, maxLights) ==
    IF i > Len(lightList) \/ ~(Len(lightList) > maxLights) THEN lightList
    ELSE IF lightList[i].mLightSource \in culled
         THEN removeCulled(SubSeq(lightList, 1, i - 1)
                              \o SubSeq(lightList, i + 1, Len(lightList)),
                           i, culled, maxLights)
         ELSE removeCulled(lightList, i + 1, culled, maxLights)

\* Variant of illuminationKey without the bias.
illuminationKey_NoBias(l) ==
    (l.mViewBound.center * l.mViewBound.center) - (l.mViewBound.radius * l.mViewBound.radius)

\* The comparison key of sortLights:
\* center().length2() - radius2() * illuminationBias
illuminationKey(l) ==
    (l.mViewBound.center * l.mViewBound.center)
        - (l.mViewBound.radius * l.mViewBound.radius) * illuminationBias

\* The orders std::sort(lightList.begin(), lightList.end(), sortLights) can
\* leave the list in.
sortLights(lightList) ==
    { [i \in 1 .. Len(lightList) |-> lightList[p[i]]] : p \in
        { q \in Permutations(1 .. Len(lightList)) :
            \A i \in 1 .. (Len(lightList) - 1) :
                ~(illuminationKey(lightList[q[i + 1]]) < illuminationKey(lightList[q[i]])) } }

\* Lines 1355-1382: the lists the callback can hand to getLightListStateSet
\* when mLightList has the entries of lightList.
fitToBudget(lightList, culled, maxLights) ==
    IF Len(lightList) > maxLights
    THEN LET visible == removeCulled(lightList, 1, culled, maxLights)
         IN IF Len(visible) > maxLights
            THEN { SubSeq(sorted, 1, maxLights) : sorted \in sortLights(visible) }
            ELSE {visible}
    ELSE {lightList}

\* The rest of LightListCallback::pushLightState (lines 1350-1392): a
\* non-empty light list is fitted to the budget, turned into a state set by
\* getLightListStateSet and pushed on the cull visitor's stack; culled holds
\* the lights whose doubled bound the camera's culling set culls.
pushLightStateSet(culled) ==
    LET lights == [i \in 1 .. Len(mLightList) |-> pointee(mLightList[i])]
        maxLights == lightBudget(mMaxLights, mStartLight)
    IN /\ pc.at = "stateset"
       /\ IF mLightList # <<>>
          THEN \E lightList \in fitToBudget(lights, culled, maxLights) :
                  /\ getLightListStateSet(lightList, frameNumber, ViewMatrixOf[pc.camera])
                  /\ stateSetStack' = Append(stateSetStack, lastCall'.ret)
                  /\ pc' = [pc EXCEPT !.at = "traverse", !.pushedState = TRUE,
                                      !.lightList = idsOf(lightList),
                                      !.culled = culled,
                                      !.stateset = lastCall'.ret]
          ELSE /\ pc' = [pc EXCEPT !.at = "traverse"]
               /\ lastCall' = Call("pushLightState", frameNumber, pc.camera, <<>>, <<>>,
                                   -1, FALSE)
               /\ UNCHANGED <<manager, stateSetStack>>
       /\ UNCHANGED <<sources, managerCull, mLightManager, mLastFrameNumber, mLightList,
                   mIgnoredLightSources, queried>>

\* The stack depth below which the nodes visited now must not pop: nothing
\* between callbacks, the callback's own entries during its traverse.
stackFloor ==
    IF pc.at = "traverse" THEN pc.depth + (IF pc.pushedState THEN 1 ELSE 0) ELSE 0

\* cv->pushStateSet by another node: an ancestor of the lit node between
\* callbacks, a node of its subtree during traverse(node, nv).
pushStateSet(stateset) ==
    /\ pc.at \in {"idle", "traverse"}
    /\ Len(stateSetStack) < stackFloor + MaxNesting
    /\ stateSetStack' = Append(stateSetStack, stateset)
    /\ UNCHANGED <<manager, lastCall, sources, managerCull, mLightManager, mLastFrameNumber, mLightList,
                   mIgnoredLightSources,
                   pc, queried>>

\* cv->popStateSet by the node that pushed the top entry.
popStateSet ==
    /\ pc.at \in {"idle", "traverse"}
    /\ Len(stateSetStack) > stackFloor
    /\ stateSetStack' = SubSeq(stateSetStack, 1, Len(stateSetStack) - 1)
    /\ UNCHANGED <<manager, lastCall, sources, managerCull, mLightManager, mLastFrameNumber, mLightList,
                   mIgnoredLightSources,
                   pc, queried>>

\* Variant of popsAfterTraverse that never pops.
popsAfterTraverse_Never(pushedState) == FALSE

\* if (pushedState) cv->popStateSet();
popsAfterTraverse(pushedState) == pushedState

\* The end of LightListCallback::operator(): traverse(node, nv) has returned,
\* the nodes of the subtree having popped what they pushed, and the callback
\* pops its state set if it pushed one.
returnFromTraverse ==
    /\ pc.at = "traverse"
    /\ Len(stateSetStack) = stackFloor
    /\ stateSetStack' = IF popsAfterTraverse(pc.pushedState)
                        THEN SubSeq(stateSetStack, 1, Len(stateSetStack) - 1)
                        ELSE stateSetStack
    /\ pc' = Idle
    /\ lastCall' = Call("LightListCallback::operator()", frameNumber, pc.camera,
                        pc.lightList, <<>>, pc.stateset, FALSE)
                   @@ [pushedState |-> pc.pushedState, depth |-> pc.depth]
    /\ UNCHANGED <<manager, sources, managerCull, mLightManager, mLastFrameNumber, mLightList,
                   mIgnoredLightSources, queried>>

\* Lines 1352-1382 on a light list of up to MaxEntries lights, for budgets
\* up to MaxBudget and every set of lights the camera culls: the list the
\* callback would hand to getLightListStateSet.
fitLightList ==
    /\ lastCall.op = "LightManager"
    /\ \E n \in 0 .. MaxEntries, maxLights \in 0 .. MaxBudget :
          \E lightList \in Collections(n), culled \in SUBSET (0 .. (n - 1)) :
              \E fitted \in fitToBudget(lightList, culled, maxLights) :
                  lastCall' = Call("fitToBudget", frameNumber, NoCamera, idsOf(fitted), <<>>, -1, FALSE)
                              @@ [lightList |-> lightList, culled |-> culled,
                                  maxLights |-> maxLights, fitted |-> fitted]
    /\ UNCHANGED <<manager, scene>>

NextBudget == fitLightList

SpecBudget == InitPerObjectUniform /\ [][NextBudget]_vars

\* LightBuffer::queryBlockSize(sz) and LightManager::getMaxLightsInScene()
\* called on a new manager, for light counts up to MaxBlockCount.
blockSize(sz) ==
    /\ lastCall.op = "LightManager"
    /\ lastCall' = Call("queryBlockSize", frameNumber, NoCamera, <<>>, <<>>,
                        queryBlockSize(sz), FALSE)
                   @@ [sz |-> sz, maxLightsInScene |-> maxLightsInBlock(UniformBlockLimit)]
    /\ UNCHANGED <<manager, scene>>

NextBlockSize == \E sz \in 0 .. MaxBlockCount : blockSize(sz)

SpecBlockSize == InitSingleUBO /\ [][NextBlockSize]_vars

\* LightManagerCullCallback::operator() for a cull traversal of the given
\* traversal number: on a number other than mLastFrameNumber the buffer of
\* the frame is bound (SingleUBO) and the sun, if set, goes to the sunlight
\* buffer or to record 0 of the light buffer; then the node is traversed.
LightManagerCullCallback(traversalNumber) ==
    /\ invoked[traversalNumber] < MaxInvocations
    /\ invoked' = [invoked EXCEPT ![traversalNumber] = @ + 1]
    /\ IF mCullFrameNumber # traversalNumber
       THEN /\ mCullFrameNumber' = traversalNumber
            /\ refreshed' = [refreshed EXCEPT ![traversalNumber] = @ + 1]
            /\ IF mSun # NoSun /\ mLightingMethod = "SingleUBO"
               THEN cullCallback(Sunlight, traversalNumber)
               ELSE /\ lastCall' = Call("LightManagerCullCallback", traversalNumber,
                                        NoCamera, <<>>, <<>>, -1, FALSE)
                    /\ UNCHANGED manager
       ELSE /\ lastCall' = Call("LightManagerCullCallback", traversalNumber, NoCamera,
                                <<>>, <<>>, -1, TRUE)
            /\ UNCHANGED <<manager, mCullFrameNumber, refreshed>>
    /\ UNCHANGED <<sources, culling>>

\* The frames of a scene whose sun may be set at any time: the update
\* traversal, then cull traversals of the frame's number.
NextSun ==
    \/ UNCHANGED scene /\ update(frameNumber + 1)
    \/ UNCHANGED scene /\ \E sun \in {NoSun, "sun"} : setSunlight(sun)
    \/ LightManagerCullCallback(frameNumber)

SpecSun == Init /\ [][NextSun]_vars

\* ------------------------------------------------------------------ attach
\* Nodes of the scene graph attach works on: the children master and
\* attachNode already have, the copies CopyRigVisitor::doCopy makes, the
\* handle group, the PositionAttitudeTransform and the clone of toAttach.
Child(i) == <<"child", i>>
Copy(i) == <<"copy", i>>
Handle == <<"handle", 0>>
Trans == <<"trans", 0>>
ClonedToAttach == <<"clonedToAttach", 0>>
NoNode == <<"nullptr", 0>>

\* A group with n children.
GroupOf(n) == [i \in 1 .. n |-> Child(i)]

\* The nodes attach is called on.  A Skeleton is described by the number of
\* subgraphs CopyRigVisitor picks with the filter; any other node by what
\* FindByNameVisitor("BoneOffset") finds in its clone: nothing, a
\* MatrixTransform or a Group, with or without children and a parent.
NodesToAttach ==
    [skeleton : {TRUE}, copies : 0 .. MaxCopies, boneOffset : {"none"},
     boneChildren : {0}, boneParents : {0}]
    \cup [skeleton : {FALSE}, copies : {0}, boneOffset : {"MatrixTransform", "Group"},
          boneChildren : 0 .. 1, boneParents : 0 .. 1]
    \cup [skeleton : {FALSE}, copies : {0}, boneOffset : {"none"},
          boneChildren : {0}, boneParents : {0}]

\* Variant of addChild that adds nothing.
addChild_Nothing(children, child) == children

\* osg::Group::addChild
addChild(children, child) == Append(children, child)

\* SceneUtil::attach(toAttach, master, filter, attachNode): the exception it
\* throws or the node it returns, the children of master, of attachNode and
\* of the transform when it is done, and whether the BoneOffset node was
\* taken out of the clone.  nameHasLeft is whether the name of
\* attachNode contains "Left".
attachNodes(toAttach, master, attachNode, nameHasLeft) ==
    IF toAttach.skeleton
    THEN IF toAttach.copies = 1
         THEN [thrown |-> FALSE, returned |-> Copy(1),
               master |-> addChild(master, Copy(1)), attachNode |-> attachNode,
               trans |-> <<>>, boneRemoved |-> FALSE]
         ELSE [thrown |-> FALSE, returned |-> Handle,
               master |-> addChild(master, Handle), attachNode |-> attachNode,
               trans |-> <<>>, boneRemoved |-> FALSE]
    ELSE IF toAttach.boneOffset # "none" /\ toAttach.boneOffset # "MatrixTransform"
         THEN [thrown |-> TRUE, returned |-> NoNode, master |-> master,
               attachNode |-> attachNode, trans |-> <<>>, boneRemoved |-> FALSE]
         ELSE IF toAttach.boneOffset # "none" \/ nameHasLeft
              THEN [thrown |-> FALSE, returned |-> Trans, master |-> master,
                    attachNode |-> addChild(attachNode, Trans),
                    trans |-> addChild(<<>>, ClonedToAttach),
                    boneRemoved |-> /\ toAttach.boneOffset # "none"
                                    /\ toAttach.boneChildren = 0
                                    /\ toAttach.boneParents = 1]
              ELSE [thrown |-> FALSE, returned |-> ClonedToAttach, master |-> master,
                    attachNode |-> addChild(attachNode, ClonedToAttach),
                    trans |-> <<>>, boneRemoved |-> FALSE]

\* One call of attach in a scene whose master and attachNode have up to
\* MaxChildren children already.
attach(toAttach, master, attachNode, nameHasLeft) ==
    /\ lastCall.op = "LightManager"
    /\ lastCall' = Call("attach", frameNumber, NoCamera, <<>>, <<>>, -1, FALSE)
                   @@ [toAttach |-> toAttach, master |-> master, attachNode |-> attachNode,
                       nameHasLeft |-> nameHasLeft,
                       result |-> attachNodes(toAttach, master, attachNode, nameHasLeft)]
    /\ UNCHANGED <<manager, scene>>

NextAttach ==
    \E toAttach \in NodesToAttach, m \in 0 .. MaxChildren, a \in 0 .. MaxChildren,
       nameHasLeft \in BOOLEAN :
        attach(toAttach, GroupOf(m), GroupOf(a), nameHasLeft)

SpecAttach == Init /\ [][NextAttach]_vars

\* The update and cull traversals of the frames before MaxFrame.
NextCull ==
    \/ UNCHANGED scene /\ pc = Idle /\ stateSetStack = <<>> /\ frameNumber + 1 < MaxFrame /\
          update(frameNumber + 1)
    \/ UNCHANGED scene /\ pc = Idle /\ stateSetStack = <<>> /\ \E lightSource \in Lights :
          /\ lightSource = Len(mLights)
          /\ mLightsInViewSpace = EmptyMap
          /\ addLight(lightSource, WorldMatrixOf[lightSource], frameNumber)
    \/ UNCHANGED scene /\ pc = NotBuilt /\ \E start \in 0 .. 1 : setStartLight(start)
    \/ \E lastFrameNumber \in InitialFrameNumbers : LightListCallback(lastFrameNumber)
    \/ \E lightSource \in Lights : ignoreLightSource(lightSource)
    \/ \E camera \in Cameras, path \in NodePaths, traversalMask \in TraversalMasks,
          nodeBound \in NodeBounds :
             pushLightState(camera, path, traversalMask, nodeBound)
    \/ \E culled \in SUBSET Lights : pushLightStateSet(culled)
    \/ pushStateSet(OtherStateSet)
    \/ popStateSet
    \/ returnFromTraverse

SpecCull == Init /\ [][NextCull]_vars

\* ------------------------------------------------------------------ claims
\* The generation the call of the step does not write (the one a reader of
\* the previous frame uses).
otherGeneration(frameNum) == 1 - Generation(frameNum)

\* The collection getLightsInViewSpace builds for a camera from the lights
\* registered in the current state.
freshViewList(camera, frameNum) ==
    collectViewBounds(1, camera, ViewMatrixOf[camera], frameNum,
                      [list |-> <<>>, light |-> mLight]).list

\* C1: after update(N) returns, the collected light list is empty, no camera
\* has a view-space cache entry and the index map of generation N mod 2 is
\* empty, whatever calls came before.
C1_UpdateClearsFrameData ==
    lastCall.op = "update" =>
        /\ mLights = <<>>
        /\ DOMAIN mLightsInViewSpace = {}
        /\ DOMAIN mLightIndexMaps[Generation(lastCall.frameNum)] = {}

\* C1 witness: update(2) has returned after frame 0 gave a buffer slot (so
\* the index map of generation 0 was filled), and frame 1 registered a light
\* and computed the main camera's list.
C1_Witness ==
    /\ lastCall.op = "update"
    /\ lastCall.frameNum = 2
    /\ mLightingMethod = "SingleUBO"
    /\ mLightBuffers[0][1].diffuseSign = 1
    /\ \E id \in Lights : mLight[id][1].position # 0
    /\ camFrame["MainCamera"] = 1

\* C2 (as stated): in the SingleUBO tier every slot index getLightListStateSet
\* hands to the LightBuffer setters is below getMaxLightsInScene.
C2_SlotsBelowCapacity ==
    (mLightingMethod = "SingleUBO" /\ lastCall.op = "getLightListStateSet") =>
        \A i \in 1 .. Len(lastCall.slots) : lastCall.slots[i] < getMaxLightsInScene

\* The index map of each generation holds exactly the light ids
\* getLightListStateSet has met since that generation's update, the id met
\* i-th in slot i: the slots are 1 .. k, no two ids share one, none is 0.
SlotsInOrderOfAppearance ==
    mLightingMethod = "SingleUBO" =>
        \A g \in 0 .. 1 :
            /\ DOMAIN mLightIndexMaps[g] = { seenIds[g][i] : i \in 1 .. Len(seenIds[g]) }
            /\ \A i \in 1 .. Len(seenIds[g]) : mLightIndexMaps[g][seenIds[g][i]] = i
            /\ \A a, b \in DOMAIN mLightIndexMaps[g] :
                  mLightIndexMaps[g][a] = mLightIndexMaps[g][b] => a = b
            /\ { mLightIndexMaps[g][a] : a \in DOMAIN mLightIndexMaps[g] }
                  = 1 .. Cardinality(DOMAIN mLightIndexMaps[g])

\* A step other than the update of generation g leaves every light of g's
\* index map in its slot.
SlotStable ==
    \A g \in 0 .. 1 :
        (lastCall'.op = "update" /\ Generation(lastCall'.frameNum) = g)
        \/ \A id \in DOMAIN mLightIndexMaps[g] :
              /\ id \in DOMAIN mLightIndexMaps'[g]
              /\ mLightIndexMaps'[g][id] = mLightIndexMaps[g][id]

\* C3: in the SingleUBO tier, between update(N) and the next update of the
\* same parity, the index map of generation N mod 2 is injective, its slots
\* are exactly 1 .. k for the k distinct ids met so far, given in order of
\* first appearance, never 0, and a light's slot never changes once given.
C3_IndexMap == [] SlotsInOrderOfAppearance /\ [][SlotStable]_vars

\* C3 witness: two distinct lights hold slots, the one with the larger id
\* met first.
C3_Witness ==
    /\ mLightingMethod = "SingleUBO"
    /\ lastCall.op = "getLightListStateSet"
    /\ \E g \in 0 .. 1 :
          /\ DOMAIN mLightIndexMaps[g] = {0, 1}
          /\ mLightIndexMaps[g][1] = 1
          /\ mLightIndexMaps[g][0] = 2

\* A getLightListStateSet step whose ordered id list was already given for
\* the same parity returns the object recorded for it and adds no entry.
SameListStep ==
    LET c == lastCall'.frameNum % 2
    IN (lastCall'.op = "getLightListStateSet" /\ lastCall'.ids \in DOMAIN issued[c]) =>
          /\ lastCall'.ret = issued[c][lastCall'.ids]
          /\ DOMAIN mStateSetCache'[c] = DOMAIN mStateSetCache[c]
          /\ nextStateSet' = nextStateSet

\* C4: two getLightListStateSet calls with the same ordered id list and
\* frame numbers of the same parity, that generation's cache not cleared in
\* between, return the identical object, and the second adds no cache entry.
C4_SameListSameObject == [][SameListStep]_vars

\* C4 witness: frame 2 asked for a list that frame 0 had asked for and got
\* the object allocated then.
C4_Witness ==
    /\ lastCall.op = "getLightListStateSet"
    /\ lastCall.frameNum = 2
    /\ lastCall.hit
    /\ lastCall.ids \in DOMAIN issued[0]
    /\ lastCall.ret = issued[0][lastCall.ids]

\* The data of generation g that the step leaves as it was.
indexMapKept(g) == mLightIndexMaps'[g] = mLightIndexMaps[g]

lightBufferKept(g) == mLightBuffers'[g] = mLightBuffers[g]

lightCopiesKept(g) == \A id \in Lights : mLight'[id][g] = mLight[id][g]

stateSetCacheKept(g) == mStateSetCache'[g] = mStateSetCache[g]

\* The calls of a frame.
FrameOps == {"update", "addLight", "getLightsInViewSpace", "getLightListStateSet"}

\* A step of a call for frame N+1 changes nothing of generation N mod 2.
OtherGenerationStep ==
    LET g == otherGeneration(lastCall'.frameNum)
    IN lastCall'.op \in FrameOps =>
          /\ stateSetCacheKept(g)
          /\ indexMapKept(g)
          /\ lightBufferKept(g)
          /\ lightCopiesKept(g)

\* C5 (as stated): a call made for frame N+1 never modifies generation
\* N mod 2 of the state-set cache, the index map, the light buffer or any
\* light's parameter copy.
C5_OtherGenerationUntouched == [][OtherGenerationStep]_vars

\* As OtherGenerationStep, but for update's orphan cleanup of the cache.
OtherGenerationButCleanupStep ==
    LET g == otherGeneration(lastCall'.frameNum)
    IN lastCall'.op \in FrameOps =>
          /\ indexMapKept(g)
          /\ lightBufferKept(g)
          /\ lightCopiesKept(g)
          /\ \/ stateSetCacheKept(g)
             \/ /\ lastCall'.op = "update"
                /\ Cardinality(DOMAIN mStateSetCache[g]) > OrphanLimit
                /\ mStateSetCache'[g] = EmptyMap

\* C5 (amended): a call made for frame N+1 never modifies generation N mod 2
\* of the index map, the light buffer or any light's parameter copy; that
\* generation's state-set cache is modified only by update(N+1), which
\* empties it when it holds more entries than the orphan threshold.
C5_OtherGenerationUntouchedButCleanup == [][OtherGenerationButCleanupStep]_vars

\* C5 witness: update(1) has emptied the state-set cache of generation 0,
\* grown past the threshold in frame 0, while the parameter copy of
\* generation 0 of light 0 keeps the position and the faded colour frame 0
\* gave it.
C5_Witness ==
    /\ lastCall.op = "update"
    /\ lastCall.frameNum = 1
    /\ nextStateSet > OrphanLimit
    /\ DOMAIN mStateSetCache[0] = {}
    /\ mLight[0][0].position = WorldMatrixOf[0]
    /\ mLight[0][0].diffuse < DiffuseInit
    /\ mLight[0][1] = NewLight

\* A getLightsInViewSpace step with a frame number the camera was not yet
\* queried for computes the camera's list from the lights registered then.
NewFrameStep ==
    LET camera == lastCall'.camera
    IN (lastCall'.op = "getLightsInViewSpace" /\ camFrame[camera] # lastCall'.frameNum) =>
          /\ ~lastCall'.hit
          /\ mLightsInViewSpace'[camera]
                \in truncateToCapacity(freshViewList(camera, lastCall'.frameNum))

CachedStep ==
    LET camera == lastCall'.camera
    IN (lastCall'.op = "getLightsInViewSpace" /\ camera \in DOMAIN mLightsInViewSpace) =>
          /\ mLightsInViewSpace'[camera] = mLightsInViewSpace[camera]
          /\ mLight' = mLight

\* C7: between two update calls a camera's view-space list is computed at
\* most once: every later getLightsInViewSpace call for the camera returns
\* the same lights in the same order and fades no light's colour further.
C7_ComputedOncePerFrame == [][CachedStep]_vars

\* C7 witness: the main camera was asked again for a list that holds a faded
\* light, after one more light was registered.
C7_Witness ==
    /\ lastCall.op = "getLightsInViewSpace"
    /\ lastCall.camera = "MainCamera"
    /\ lastCall.hit
    /\ mLightsInViewSpace["MainCamera"] # <<>>
    /\ Len(mLights) > Len(mLightsInViewSpace["MainCamera"])
    /\ \E id \in Lights : mLight[id][Generation(lastCall.frameNum)].diffuse < DiffuseInit

\* In the SingleUBO tier no camera's list has more than
\* getMaxLightsInScene - 1 entries.
ListWithinCapacity ==
    mLightingMethod = "SingleUBO" =>
        \A camera \in DOMAIN mLightsInViewSpace :
            Len(mLightsInViewSpace[camera]) <= getMaxLightsInScene - 1

\* A getLightsInViewSpace step that truncates keeps the first built entry
\* first.
FirstEntryStep ==
    LET camera == lastCall'.camera
        built == freshViewList(camera, lastCall'.frameNum)
    IN (/\ mLightingMethod = "SingleUBO"
        /\ lastCall'.op = "getLightsInViewSpace"
        /\ ~lastCall'.hit
        /\ Len(built) > getMaxLightsInScene - 1) =>
          mLightsInViewSpace'[camera][1] = built[1]

\* C8: in the SingleUBO tier the list returned by getLightsInViewSpace never
\* has more than getMaxLightsInScene - 1 entries, and when truncation happens
\* the entry at index 0 before truncation is still at index 0 afterwards.
C8_TruncationKeepsFirst == [] ListWithinCapacity /\ [][FirstEntryStep]_vars

\* C8 witness: the reflection camera's list was cut to capacity from two
\* distinct registered lights and starts with the one registered first.
C8_Witness ==
    /\ mLightingMethod = "SingleUBO"
    /\ lastCall.op = "getLightsInViewSpace"
    /\ lastCall.camera = "ReflectionCamera"
    /\ ~lastCall.hit
    /\ Len(mLights) > getMaxLightsInScene - 1
    /\ mLights[1].mLightSource # mLights[2].mLightSource
    /\ Len(mLightsInViewSpace["ReflectionCamera"]) = getMaxLightsInScene - 1
    /\ mLightsInViewSpace["ReflectionCamera"][1].mLightSource = mLights[1].mLightSource

\* An addLight step adds the entry of its LightSource at the end of the
\* collected list; the cull-side calls leave the list alone.
AppendStep ==
    /\ lastCall'.op = "addLight" =>
          mLights' = Append(mLights, [mLightSource |-> lastCall'.ids[1],
                                      mWorldMatrix |-> WorldMatrixOf[lastCall'.ids[1]]])
    /\ lastCall'.op \in {"getLightsInViewSpace", "getLightListStateSet"} =>
          mLights' = mLights

\* C9: the collected light list after a sequence of addLight calls since the
\* last update holds one entry per call, in call order; two calls for the
\* same LightSource in one frame make two entries (no deduplication).
C9_OneEntryPerCall == [][AppendStep]_vars

\* C9 witness: the same LightSource was registered twice in one frame.
C9_Witness ==
    /\ lastCall.op = "addLight"
    /\ Len(mLights) = 2
    /\ mLights[1].mLightSource = mLights[2].mLightSource

\* An update step empties exactly the generations that hold more entries
\* than the threshold and keeps every entry of the others.
CleanupStep ==
    lastCall'.op = "update" =>
        \A g \in 0 .. 1 :
            IF Cardinality(DOMAIN mStateSetCache[g]) > OrphanLimit
            THEN mStateSetCache'[g] = EmptyMap
            ELSE mStateSetCache'[g] = mStateSetCache[g]

\* C10: during update each generation's state-set cache is emptied if and
\* only if it held more entries than the threshold when update was called; a
\* generation at or below it keeps every entry; each generation is decided
\* on its own.
C10_OrphanCleanup == [][CleanupStep]_vars

\* C10 witness: update(2) has emptied generation 1, grown past the threshold
\* in frame 1, and kept the one entry of generation 0.
C10_Witness ==
    /\ lastCall.op = "update"
    /\ lastCall.frameNum = 2
    /\ nextStateSet = OrphanLimit + 2
    /\ DOMAIN mStateSetCache[1] = {}
    /\ Cardinality(DOMAIN mStateSetCache[0]) = 1

\* The distance from the camera of the view-space centre of a registered light.
viewDistance(transform, camera) == Abs(transform.mWorldMatrix + ViewMatrixOf[camera])

\* The entries of the collected list that belong to a LightSource.
entriesOf(id) == { i \in 1 .. Len(mLights) : mLights[i].mLightSource = id }

\* Whether the SingleUBO truncation can drop entries of the list built.
mayTruncate == mLightingMethod = "SingleUBO" /\ Len(mLights) > getMaxLightsInScene - 1

\* A getLightsInViewSpace step that computes the list of a non-reflection
\* camera with fade end E # 0 and fade start S < E treats a light registered
\* once at distance d by fade = 1 - clamp((d - S) / (E - S), 0, 1).
FadeStep ==
    LET camera == lastCall'.camera
        g == Generation(lastCall'.frameNum)
        E == mPointLightFadeEnd
        S == mPointLightFadeStart
        listed == { mLightsInViewSpace'[camera][k].mLightSource :
                      k \in 1 .. Len(mLightsInViewSpace'[camera]) }
    IN (/\ lastCall'.op = "getLightsInViewSpace"
        /\ ~lastCall'.hit
        /\ camera # "ReflectionCamera"
        /\ E # 0
        /\ S < E) =>
          \A i \in 1 .. Len(mLights) :
             LET id == mLights[i].mLightSource
                 d == viewDistance(mLights[i], camera)
                 before == mLight[id][g].diffuse
                 after == mLight'[id][g].diffuse
             IN entriesOf(id) = {i} =>
                   /\ d <= S => /\ after = before
                                /\ mayTruncate \/ id \in listed
                   /\ (S < d /\ d < E) => /\ after = (before * (E - d)) \div (E - S)
                                          /\ mayTruncate \/ id \in listed
                   /\ d >= E => /\ after = before
                                /\ id \notin listed

listedAfter(camera) ==
    { mLightsInViewSpace'[camera][k].mLightSource :
        k \in 1 .. Len(mLightsInViewSpace'[camera]) }

\* A getLightsInViewSpace step that computes the reflection camera's list
\* lists every registered light and changes no colour.
ReflectionStep ==
    (/\ lastCall'.op = "getLightsInViewSpace"
     /\ ~lastCall'.hit
     /\ lastCall'.camera = "ReflectionCamera") =>
        /\ \A i \in 1 .. Len(mLights) :
              mLights[i].mLightSource \in listedAfter("ReflectionCamera")
        /\ mLight' = mLight

\* C12 (as stated): when getLightsInViewSpace computes the list of the camera
\* named "ReflectionCamera", every registered light appears in the list
\* whatever its distance, and the call changes no light's diffuse colour.
C12_ReflectionListsAll == [][ReflectionStep]_vars

\* As ReflectionStep, with the SingleUBO truncation: the list is the
\* collected list, or its cut to capacity when that is longer.
ReflectionButTruncationStep ==
    LET list == mLightsInViewSpace'["ReflectionCamera"]
    IN (/\ lastCall'.op = "getLightsInViewSpace"
        /\ ~lastCall'.hit
        /\ lastCall'.camera = "ReflectionCamera") =>
           /\ mLight' = mLight
           /\ IF mayTruncate
              THEN /\ Len(list) = getMaxLightsInScene - 1
                   /\ list[1].mLightSource = mLights[1].mLightSource
                   /\ listedAfter("ReflectionCamera") \subseteq
                         { mLights[i].mLightSource : i \in 1 .. Len(mLights) }
              ELSE idsOf(list) = idsOf(mLights)

\* C12 (amended): when getLightsInViewSpace computes the list of the camera
\* named "ReflectionCamera", the call changes no light's diffuse colour and
\* the list holds every registered light whatever its distance, in
\* registration order, unless the tier is SingleUBO and more than
\* getMaxLightsInScene - 1 lights are registered: then the list is cut to
\* getMaxLightsInScene - 1 of them, the first registered one first.
C12_ReflectionListsAllButTruncation == [][ReflectionButTruncationStep]_vars

\* C12 witness: the reflection camera's list holds a light at the fade end
\* distance from it and one next to it, both with the colour they had.
C12_Witness ==
    /\ lastCall.op = "getLightsInViewSpace"
    /\ lastCall.camera = "ReflectionCamera"
    /\ ~lastCall.hit
    /\ mLightingMethod = "PerObjectUniform"
    /\ mLights = << [mLightSource |-> 0, mWorldMatrix |-> 0],
                    [mLightSource |-> 1, mWorldMatrix |-> FadeEndSetting] >>
    /\ viewDistance(mLights[1], "ReflectionCamera") >= mPointLightFadeEnd
    /\ idsOf(mLightsInViewSpace["ReflectionCamera"]) = <<0, 1>>
    /\ \A id \in Lights : mLight[id][Generation(lastCall.frameNum)].diffuse = DiffuseInit

\* The tier the stated order of precedence gives: the fixed-function request,
\* then a missing driver feature, then the configured preference.
statedTier(ffp, supportsUBO, supportsGPU4, lightingMethodString) ==
    IF ffp THEN "FFP"
    ELSE IF ~supportsUBO \/ ~supportsGPU4 THEN "PerObjectUniform"
         ELSE getLightingMethodFromString(lightingMethodString)

\* C13: for every combination of the ffp flag, the two driver features and
\* the configured lighting method, the constructor chooses FFP when
\* fixed-function is forced, otherwise PerObjectUniform when either feature is
\* missing, otherwise the tier the configured lighting method names.
C13_TierPrecedence ==
    lastCall.op = "LightManager" =>
        mLightingMethod = statedTier(lastCall.ffp, lastCall.supportsUBO,
                                     lastCall.supportsGPU4, lastCall.lightingMethodString)

\* C14: getLightingMethodFromString returns FFP for "legacy", PerObjectUniform
\* for "shaders compatibility", SingleUBO for "shaders" and PerObjectUniform
\* for every other string; it always returns a method.
C14_MethodFromString ==
    (lastCall.op = "LightManager" /\ ~lastCall.ffp) =>
        LET value == lastCall.lightingMethodString
            ret == lastCall.lightingMethod
        IN /\ ret \in Methods
           /\ value = "legacy" => ret = "FFP"
           /\ value = "shaders compatibility" => ret = "PerObjectUniform"
           /\ value = "shaders" => ret = "SingleUBO"
           /\ value \notin {"legacy", "shaders compatibility", "shaders"} =>
                 ret = "PerObjectUniform"

C14_Witness ==
    /\ lastCall.op = "LightManager"
    /\ ~lastCall.ffp
    /\ lastCall.lightingMethodString = "Shaders"
    /\ lastCall.lightingMethod = "PerObjectUniform"

TierKeptStep ==
    /\ mLightingMethod' = mLightingMethod
    /\ mStateSetGenerator' = mStateSetGenerator

\* C15: after construction no call (update, addLight, getLightsInViewSpace,
\* getLightListStateSet, updateMaxLights, updateSettings,
\* processChangedSettings, setStartLight, setSunlight, setLightingMask)
\* changes the lighting tier or the state-set generator.
C15_TierFixed == [][TierKeptStep]_vars

C15_Witness ==
    /\ lastCall.op = "processChangedSettings"
    /\ mLightingMethod = "SingleUBO"
    /\ mStateSetGenerator = "StateSetGeneratorSingleUBO"
    /\ mMaxLights # getTargetLights(settings["max lights"])
    /\ mStartLight = 1
    /\ mSun # NoSun
    /\ mLightingMask # FullMask
    /\ nextStateSet > 0

MaxLightsStep ==
    lastCall'.op = "updateMaxLights" =>
        IF mLightingMethod = "FFP"
        THEN UNCHANGED <<config, others, mLight, mLights, mLightsInViewSpace,
                         mLightIndexMaps, mStateSetCache, mLightBuffers, frameNumber,
                         nextStateSet, seenIds, issued, camFrame>>
        ELSE /\ \A g \in 0 .. 1 : mStateSetCache'[g] = EmptyMap
             /\ mMaxLights' = clamp(settings["max lights"], MaxLightsLowerLimit,
                                    MaxLightsUpperLimit)

\* C16: after updateMaxLights in a tier other than FFP the state-set caches
\* of both generations are empty and getMaxLights() is the "max lights"
\* setting clamped to the engine's limits; in the FFP tier the call changes
\* nothing.
C16_MaxLightsApplied == [][MaxLightsStep]_vars

C16_Witness ==
    /\ lastCall.op = "updateMaxLights"
    /\ mLightingMethod # "FFP"
    /\ lastCall.statesets # {}
    /\ settings["max lights"] > MaxLightsUpperLimit
    /\ mMaxLights = MaxLightsUpperLimit

\* The elements of the "LightBuffer" uniform array that
\* LightStateAttributePerObjectUniform::apply writes for a state set: element
\* 0 for the sun and element i + 1 for its i-th light.
elementsWritten(stateset) == 0 .. Len(stateset.lights)

\* A state set fits resources of maxLights elements.
withinCap(stateset, method, maxLights) ==
    /\ stateset.count <= maxLights
    /\ method = "PerObjectUniform" =>
          \A element \in elementsWritten(stateset) : element < maxLights
    /\ method = "SingleUBO" => stateset.count <= Len(stateset.indices)

LoweredStep ==
    (lastCall'.op = "updateMaxLights" /\ mMaxLights' < mMaxLights) =>
        \A stateset \in lastCall'.statesets :
            withinCap(stateset, mLightingMethod, mMaxLights')

\* C17: after updateMaxLights lowers the cap to M, every state set that was
\* in the cache of either generation reports a light count of at most M and
\* refers only to elements below M of the resized arrays, in the
\* PerObjectUniform and in the SingleUBO tier.
C17_CachedWithinCap == [][LoweredStep]_vars

\* C18: over any sequence of apply calls, configureLayout has been invoked on
\* neither buffer as long as no apply has observed an active uniform block,
\* and exactly once on each of the two buffers from the first apply that
\* observed one on, whatever applies follow.
C18_LayoutConfiguredOnce ==
    \A g \in 0 .. 1 : configured[g] = (IF observed THEN 1 ELSE 0)

C18_Witness ==
    /\ lastCall.op = "apply"
    /\ lastCall.initLayout
    /\ lastCall.activeUniformBlocks > 0
    /\ \A g \in 0 .. 1 : configured[g] = 1

\* C19: when apply takes the layout step, every record below the count of
\* each buffer reads the same through the new layout after configureLayout
\* as through the old layout before it: the colour words (diffuse, ambient,
\* specular, diffuse sign), the position and the attenuation with the radius.
C19_LayoutPreservesData ==
    (lastCall.op = "apply" /\ ~lastCall.initLayout /\ lastCall.activeUniformBlocks > 0) =>
        \A g \in 0 .. 1 : \A index \in 0 .. (getMaxLightsInScene - 1) :
            lastCall.after[g][index] = lastCall.before[g][index]

C19_Witness ==
    /\ lastCall.op = "apply"
    /\ ~lastCall.initLayout
    /\ lastCall.activeUniformBlocks > 0
    /\ \A g \in 0 .. 1 :
          /\ mOffsets[g] # DefaultOffsets
          /\ lastCall.before[g][1].colours["Diffuse"] # 0
          /\ lastCall.before[g][1].colours["Ambient"] # 0
          /\ lastCall.before[g][1].position # <<0, 0, 0, 0>>
          /\ lastCall.before[g][1].attenuationRadius # <<0, 0, 0, 0>>
          /\ lastCall.before[g][0].colours["Specular"] # 0
          /\ lastCall.after[g][1] = lastCall.before[g][1]

\* The colour negated, component by component.
negated(value) == [i \in 1 .. 4 |-> -value[i]]

\* C20: after setDiffuse(index, value) the record holds the packed negated
\* colour and the sign marker with all bits set when any component of value
\* is negative, and the packed colour as given and the marker 1 otherwise.
C20_DiffuseSign ==
    lastCall.op \in {"cullCallback", "updateGPUPointLight"} =>
        LET buffer == bufferOf(Generation(lastCall.frameNum))
            stored == readRecord(buffer, lastCall.slots[1]).colours
            value == lastCall.diffuse
        IN IF \E i \in 1 .. 4 : value[i] < 0
           THEN /\ stored["Diffuse"] = asRGBA(negated(value))
                /\ stored["DiffuseSign"] = SignNegative
           ELSE /\ stored["Diffuse"] = asRGBA(value)
                /\ stored["DiffuseSign"] = 1

\* The state set object the last getLightListStateSet returned, as the cache
\* of the call's generation holds it.
returnedStateSet ==
    LET cache == mStateSetCache[cacheGeneration(lastCall.frameNum)]
    IN cache[CHOOSE h \in DOMAIN cache : cache[h].obj = lastCall.ret]

idSet(ids) == { ids[i] : i \in 1 .. Len(ids) }

\* The cache key getLightListStateSet computes for a list with these ids.
keyOf(ids) == hashOfList([i \in 1 .. Len(ids) |-> [mLightSource |-> ids[i]]], Len(ids))

\* Two lists handed to getLightListStateSet in one cache generation that hold
\* the same ids in different orders.
reordered(c, k1, k2) ==
    /\ k1 \in DOMAIN issued[c]
    /\ k2 \in DOMAIN issued[c]
    /\ k1 # k2
    /\ Len(k1) = Len(k2)
    /\ idSet(k1) = idSet(k2)

\* C28: two light lists with the same set of ids in different orders have
\* different cache keys and are different cache entries: within one cache
\* generation they are given distinct state set objects.
C28_OrderIsPartOfKey ==
    \A c \in 0 .. 1 : \A k1, k2 \in DOMAIN issued[c] :
        reordered(c, k1, k2) =>
            /\ keyOf(k1) # keyOf(k2)
            /\ issued[c][k1] # issued[c][k2]
            /\ keyOf(k1) \in DOMAIN mStateSetCache[c]
            /\ keyOf(k2) \in DOMAIN mStateSetCache[c]
            /\ mStateSetCache[c][keyOf(k1)].obj = issued[c][k1]
            /\ mStateSetCache[c][keyOf(k2)].obj = issued[c][k2]

C28_Witness ==
    \E c \in 0 .. 1 : \E k1, k2 \in DOMAIN issued[c] :
        /\ reordered(c, k1, k2)
        /\ issued[c][k1] # issued[c][k2]
        /\ lastCall.op = "getLightListStateSet"
        /\ lastCall.ids = k2
        /\ ~lastCall.hit

\* The value the claim orders by: squared distance minus squared bound radius.
statedKey(l) ==
    (l.mViewBound.center * l.mViewBound.center) - (l.mViewBound.radius * l.mViewBound.radius)

\* The collection the sort and erase was applied to, and what it left.
truncatedFrom == lastCall.list
truncatedTo == mLightsInViewSpace[lastCall.camera]

\* C29: when the SingleUBO truncation happens, the collection keeps its entry
\* at index 0 and after it the getMaxLightsInScene() - 2 entries of the rest
\* with the smallest (squared distance - squared bound radius), in ascending
\* order of that value: kept entries come from the rest, each once, and no
\* discarded entry has a strictly smaller value than a kept one.
C29_NearestKept ==
    (lastCall.op = "sortAndErase" /\ Len(truncatedFrom) > lastCall.maxLightsInScene - 1) =>
        LET kept == { i \in 2 .. Len(truncatedTo) : TRUE }
            keptIds == { truncatedTo[i].mLightSource : i \in kept }
            rest == { j \in 2 .. Len(truncatedFrom) : TRUE }
            discarded == { j \in rest : truncatedFrom[j].mLightSource \notin keptIds }
        IN /\ Len(truncatedTo) = lastCall.maxLightsInScene - 1
           /\ truncatedTo[1] = truncatedFrom[1]
           /\ Cardinality(keptIds) = lastCall.maxLightsInScene - 2
           /\ \A i \in kept : \E j \in rest : truncatedTo[i] = truncatedFrom[j]
           /\ \A i, k \in kept : i < k => statedKey(truncatedTo[i]) <= statedKey(truncatedTo[k])
           /\ \A j \in discarded : \A i \in kept :
                 ~(statedKey(truncatedFrom[j]) < statedKey(truncatedTo[i]))

\* A truncation that keeps two entries after index 0 and discards one, where
\* the entry at index 0 is farther than every other and the order of the
\* rest had to change.
C29_Witness ==
    /\ lastCall.op = "sortAndErase"
    /\ lastCall.maxLightsInScene = 4
    /\ Len(truncatedFrom) = 4
    /\ Len(truncatedTo) = 3
    /\ \A j \in 2 .. 4 : statedKey(truncatedFrom[1]) > statedKey(truncatedFrom[j])
    /\ idsOf(truncatedTo) = <<0, 3, 1>>
    /\ statedKey(truncatedTo[2]) < statedKey(truncatedTo[3])

\* The light sources a camera's cached collection holds.
listedFor(entries, camera) ==
    { entries[camera][i].mLightSource : i \in 1 .. Len(entries[camera]) }

\* Once a camera has its collection, neither addLight nor a further
\* getLightsInViewSpace for that camera changes it.
StaleEntryStep ==
    /\ lastCall'.op = "addLight" => mLightsInViewSpace' = mLightsInViewSpace
    /\ \A camera \in DOMAIN mLightsInViewSpace :
          (lastCall'.op = "getLightsInViewSpace" /\ lastCall'.camera = camera) =>
              /\ camera \in DOMAIN mLightsInViewSpace'
              /\ mLightsInViewSpace'[camera] = mLightsInViewSpace[camera]

\* A camera queried for the first time since the last update gets every
\* light registered so far.
FirstQueryStep ==
    \A camera \in Cameras \ DOMAIN mLightsInViewSpace :
        (lastCall'.op = "getLightsInViewSpace" /\ lastCall'.camera = camera) =>
            \A i \in 1 .. Len(mLights) :
                mLights[i].mLightSource \in listedFor(mLightsInViewSpace', camera)

\* C30 (as stated): after getLightsInViewSpace for a camera, a light added
\* without an intervening update is not in what later calls for that camera
\* return, and a camera queried for the first time after the addLight does
\* get it.
C30_LateLightSeenByNewCameraOnly == [][StaleEntryStep /\ FirstQueryStep]_vars

\* The registered lights whose fade for the camera is not zero: all of them
\* for the reflection camera or with the fade disabled, else those nearer
\* than the fade end.
unfaded(camera) ==
    { i \in 1 .. Len(mLights) :
        \/ isReflectionCamera(camera)
        \/ mPointLightFadeEnd = 0
        \/ Abs(mLights[i].mWorldMatrix + ViewMatrixOf[camera]) < mPointLightFadeEnd }

\* As FirstQueryStep, with the fade and the SingleUBO truncation: the camera
\* gets the registered lights that are not faded out for it, or
\* getMaxLightsInScene - 1 of them when there are more.
FirstQueryButFadeStep ==
    \A camera \in Cameras \ DOMAIN mLightsInViewSpace :
        (lastCall'.op = "getLightsInViewSpace" /\ lastCall'.camera = camera) =>
            LET kept == { mLights[i].mLightSource : i \in unfaded(camera) }
                got == listedFor(mLightsInViewSpace', camera)
            IN IF /\ mLightingMethod = "SingleUBO"
                  /\ Cardinality(unfaded(camera)) > getMaxLightsInScene - 1
               THEN /\ got \subseteq kept
                    /\ Len(mLightsInViewSpace'[camera]) = getMaxLightsInScene - 1
               ELSE got = kept

\* C30 (amended): after getLightsInViewSpace for a camera, a light added
\* without an intervening update is not in what later calls for that camera
\* return; a camera queried for the first time after the addLight gets it
\* unless the light is faded out for that camera (the camera is not the
\* reflection camera, the fade is enabled and the light is at the fade end
\* distance or beyond) or the SingleUBO truncation cuts it.
C30_LateLightSeenUnlessFaded == [][StaleEntryStep /\ FirstQueryButFadeStep]_vars

\* C30 witness: the reflection camera has just been queried again and its
\* collection lacks a registered light that the main camera, queried later
\* for the first time, has got.
C30_Witness ==
    /\ mLightingMethod # "SingleUBO"
    /\ lastCall.op = "getLightsInViewSpace"
    /\ lastCall.camera = "ReflectionCamera"
    /\ lastCall.hit
    /\ "MainCamera" \in DOMAIN mLightsInViewSpace
    /\ \E i \in 1 .. Len(mLights) :
          /\ mLights[i].mLightSource \notin listedFor(mLightsInViewSpace, "ReflectionCamera")
          /\ mLights[i].mLightSource \in listedFor(mLightsInViewSpace, "MainCamera")

\* C26: every LightSource, default- or copy-constructed, has an identifier
\* different from every other one's, identifiers strictly increase in
\* construction order, and a copy never shares its original's identifier.
C26_IdsUniqueAndIncreasing ==
    /\ \A i, k \in 1 .. Len(mId) : i < k => mId[i] < mId[k]
    /\ \A i, k \in 1 .. Len(mId) : i # k => mId[i] # mId[k]
    /\ \A k \in 1 .. Len(mId) : origin[k] # 0 => mId[k] # mId[origin[k]]

\* C26 witness: a copy of a copy has been constructed after a default one.
C26_Witness ==
    \E k \in 1 .. Len(mId) :
        /\ origin[k] # 0
        /\ origin[origin[k]] # 0
        /\ mId[k] > mId[origin[k]]
        /\ \E d \in 1 .. Len(mId) : d > origin[k] /\ origin[d] = 0

\* C25: compare on a DisableLight, FFPLightStateAttribute,
\* LightStateAttributePerObjectUniform or LightManagerStateAttribute fails
\* with a runtime error whatever its argument and returns no ordering value.
C25_CompareThrows ==
    lastCall.op = "compare" =>
        /\ lastCall.attribute \in Attributes
        /\ lastCall.thrown = "std::runtime_error"
        /\ ~lastCall.returns

\* C25 witness: each of the four classes has been compared with another one.
C25_Witness ==
    /\ lastCall.op = "compare"
    /\ lastCall.attribute = "LightManagerStateAttribute"
    /\ lastCall.sa = "DisableLight"
    /\ lastCall.thrown = "std::runtime_error"

\* A run of CollectLightCallback: without a cached manager and without one
\* on the node path it throws, registers nothing and does not traverse;
\* else it registers the light and traverses, and the manager stays cached.
CollectStep ==
    lastCall'.op = "CollectLightCallback" =>
        LET lightSource == lastCall'.ids[1]
            onPath == \E i \in 1 .. Len(lastCall'.path) : lastCall'.path[i] = "LightManager"
        IN IF mCollectManager[lightSource] = NoManager /\ ~onPath
           THEN /\ lastCall'.thrown = "std::runtime_error"
                /\ ~lastCall'.traversed
                /\ mLights' = mLights
                /\ mLight' = mLight
                /\ mCollectManager' = mCollectManager
           ELSE /\ lastCall'.thrown = "none"
                /\ lastCall'.traversed
                /\ mCollectManager'[lightSource] = TheManager
                /\ mLights' = Append(mLights, [mLightSource |-> lightSource,
                                               mWorldMatrix |-> WorldMatrixOf[lightSource]])

\* C24: CollectLightCallback on a node whose path holds no LightManager
\* raises a runtime error, registers no light and does not traverse the
\* children; once a manager has been found it is cached and used again on
\* later runs, whatever the node path then holds.
C24_CollectNeedsManager == [][CollectStep]_vars

\* C24 witness: one light source's callback has thrown for want of a manager
\* while another one's, with its manager cached, has registered its light.
C24_Witness ==
    /\ lastCall.op = "CollectLightCallback"
    /\ lastCall.thrown = "std::runtime_error"
    /\ mCollectManager[lastCall.ids[1]] = NoManager
    /\ \E other \in Lights : mCollectManager[other] = TheManager
    /\ Len(mLights) = 1

\* A step that enters LightListCallback::pushLightState, and the step that
\* ends it with a state set pushed or with an empty list.
entersPushLightState == pc = Idle /\ pc'.at \in {"stateset", "traverse"}
endsPushLightState == pc.at = "stateset" /\ pc'.at = "traverse"

\* The callback asks the manager for view-space lights at most once per
\* traversal number, and a visit in a traversal whose number it has already
\* seen keeps the list as it is and asks for nothing.
RefreshStep ==
    /\ \A frameNum \in 0 .. MaxFrame : queried'[frameNum] <= 1
    /\ (entersPushLightState /\ mLastFrameNumber = frameNumber) =>
          /\ mLightList' = mLightList
          /\ queried' = queried
          /\ mLightsInViewSpace' = mLightsInViewSpace
          /\ camFrame' = camFrame
          /\ lastCall'.op # "getLightsInViewSpace"
    /\ endsPushLightState =>
          /\ mLightList' = mLightList
          /\ queried' = queried
    /\ (endsPushLightState /\ Len(mLightList) <= mMaxLights - mStartLight
            /\ mLightList # <<>>) =>
          pc'.lightList = [i \in 1 .. Len(mLightList) |-> pointee(mLightList[i]).mLightSource]

\* C21: LightListCallback recomputes its light list at most once per
\* traversal number: when a second camera visits the node with the same
\* traversal number, the list computed for the first camera is used again
\* unchanged and the callback does not call getLightsInViewSpace again.
C21_ListOncePerTraversal == [][RefreshStep]_vars

\* C21 witness: the main camera's visit has pushed a state set built from
\* the list computed for the reflection camera, the main camera itself never
\* having been queried in this frame.
C21_Witness ==
    /\ pc.at = "traverse"
    /\ pc.pushedState
    /\ pc.camera = "MainCamera"
    /\ queried[frameNumber] = 1
    /\ camFrame["MainCamera"] # frameNumber
    /\ mLightList # <<>>
    /\ mLightList[1].camera = "ReflectionCamera"

\* The list handed to getLightListStateSet by the callback fits the budget.
BudgetStep ==
    (endsPushLightState /\ pc'.pushedState) =>
        /\ lastCall'.op = "getLightListStateSet"
        /\ lastCall'.ids = pc'.lightList
        /\ Len(lastCall'.ids) <= mMaxLights - mStartLight

\* C22: every light list LightListCallback passes to getLightListStateSet
\* has at most getMaxLights() - getStartLight() entries, whatever the number
\* of lights that intersect the node and whatever the camera culls.
C22_ListWithinBudget == [][BudgetStep]_vars

\* C22 witness: more lights intersect the node than the budget allows, the
\* camera culled the first of them and the list passed holds the other.
C22_Witness ==
    /\ pc.at = "traverse"
    /\ pc.pushedState
    /\ Len(mLightList) = 2
    /\ mMaxLights - mStartLight = 1
    /\ pointee(mLightList[1]).mLightSource \in pc.culled
    /\ pc.lightList = <<pointee(mLightList[2]).mLightSource>>

\* What LightListCallback::operator() does to the cull visitor's stack.
StackStep ==
    /\ (endsPushLightState /\ pc'.pushedState) =>
          stateSetStack' = Append(stateSetStack, pc'.stateset)
    /\ ((endsPushLightState \/ entersPushLightState) /\ ~pc'.pushedState) =>
          stateSetStack' = stateSetStack
    /\ pc'.at = "traverse" =>
          /\ pc'.depth <= Len(stateSetStack')
          /\ SubSeq(stateSetStack', 1, pc'.depth) = SubSeq(stateSetStack, 1, pc'.depth)
          /\ pc'.pushedState =>
                /\ pc'.depth + 1 <= Len(stateSetStack')
                /\ stateSetStack'[pc'.depth + 1] = pc'.stateset
    /\ (pc.at = "traverse" /\ pc' = Idle) =>
          /\ Len(stateSetStack') = pc.depth
          /\ stateSetStack' = SubSeq(stateSetStack, 1, pc.depth)
          /\ Len(stateSetStack) - Len(stateSetStack') = (IF pc.pushedState THEN 1 ELSE 0)

\* C23: LightListCallback::operator() leaves the cull visitor's state set
\* stack at the depth it had on entry: it pops once after the traversal of
\* the subtree if and only if pushLightState pushed a state set, and that
\* state set stays on the stack while the children are traversed.
C23_StackRestored == [][StackStep]_vars

\* C23 witness: the callback, entered with another node's state set on the
\* stack, has pushed its own, traversed and returned, and the stack holds
\* the other node's state set alone again.
C23_Witness ==
    /\ pc = Idle
    /\ lastCall.op = "LightListCallback::operator()"
    /\ lastCall.pushedState
    /\ lastCall.depth = 1
    /\ stateSetStack = <<OtherStateSet>>

\* The light list the callback has computed in the frame in progress and the
\* lists it hands to getLightListStateSet hold no ignored light source.
IgnoredStep ==
    /\ (mLastFrameNumber' = frameNumber' /\ queried'[frameNumber'] >= 1) =>
          \A i \in 1 .. Len(mLightList') :
              mLightsInViewSpace'[mLightList'[i].camera][mLightList'[i].index].mLightSource
                  \notin mIgnoredLightSources'
    /\ (endsPushLightState /\ pc'.pushedState) =>
          /\ lastCall'.op = "getLightListStateSet"
          /\ \A i \in 1 .. Len(lastCall'.ids) :
                lastCall'.ids[i] \notin mIgnoredLightSources

fittedFrom == lastCall.lightList
fittedTo == lastCall.fitted
discardedLights == idSet(idsOf(fittedFrom)) \ idSet(idsOf(fittedTo))
culledLights == idSet(idsOf(fittedFrom)) \cap lastCall.culled

\* The place of a light in the list before the fitting.
placeOf(lightSource) ==
    CHOOSE k \in 1 .. Len(fittedFrom) : fittedFrom[k].mLightSource = lightSource

\* The kept lights are lights of the list, each once, in the order they had.
orderKept ==
    /\ \A i \in 1 .. Len(fittedTo) : \E k \in 1 .. Len(fittedFrom) : fittedTo[i] = fittedFrom[k]
    /\ \A i, k \in 1 .. Len(fittedTo) :
          i < k => placeOf(fittedTo[i].mLightSource) < placeOf(fittedTo[k].mLightSource)

\* C31: when a node's light list is over budget, a light that is not
\* frustum-culled is discarded only if every frustum-culled light of the
\* list has been discarded too; if removing frustum-culled lights alone
\* brings the list within budget, no other light is removed and the lights
\* that remain keep their relative order.
C31_CulledLightsGoFirst ==
    (lastCall.op = "fitToBudget" /\ Len(fittedFrom) > lastCall.maxLights) =>
        /\ (discardedLights \ lastCall.culled # {}) => culledLights \subseteq discardedLights
        /\ (Len(fittedFrom) - Cardinality(culledLights) <= lastCall.maxLights) =>
              /\ discardedLights \subseteq lastCall.culled
              /\ orderKept
              /\ Len(fittedTo) <= lastCall.maxLights

\* C31 witness: of four lights with a budget of two the camera culls the
\* second and the fourth; the first and the third are kept, in that order,
\* though the third has the larger key.
C31_Witness ==
    /\ lastCall.op = "fitToBudget"
    /\ Len(fittedFrom) = 4
    /\ lastCall.maxLights = 2
    /\ lastCall.culled = {1, 3}
    /\ idsOf(fittedTo) = <<0, 2>>
    /\ illuminationKey(fittedFrom[3]) < illuminationKey(fittedFrom[1])

\* The value the claim orders by: squared distance minus 81 times the
\* squared radius.
statedIllumination(l) ==
    (l.mViewBound.center * l.mViewBound.center) - 81 * (l.mViewBound.radius * l.mViewBound.radius)

\* The lights of the list that frustum rejection leaves.
visibleLights == { k \in 1 .. Len(fittedFrom) : fittedFrom[k].mLightSource \notin lastCall.culled }

\* C32: when the list is still over budget after frustum rejection, the
\* lights kept are the budget-many of the remaining lights with the smallest
\* key (squared distance minus 81 times squared radius), in ascending key
\* order: no light discarded by this step has a strictly smaller key than a
\* kept one.
C32_BrightestKept ==
    (lastCall.op = "fitToBudget" /\ Cardinality(visibleLights) > lastCall.maxLights) =>
        /\ Len(fittedTo) = lastCall.maxLights
        /\ \A i \in 1 .. Len(fittedTo) : \E k \in visibleLights : fittedTo[i] = fittedFrom[k]
        /\ Cardinality(idSet(idsOf(fittedTo))) = lastCall.maxLights
        /\ \A i, k \in 1 .. Len(fittedTo) :
              i < k => statedIllumination(fittedTo[i]) <= statedIllumination(fittedTo[k])
        /\ \A k \in visibleLights : \A i \in 1 .. Len(fittedTo) :
              fittedFrom[k].mLightSource \in discardedLights =>
                  ~(statedIllumination(fittedFrom[k]) < statedIllumination(fittedTo[i]))

\* C32 witness: of three lights the camera culls none of, the two kept are
\* the far one with the large radius and then a near one with the small
\* radius; the light discarded is nearer than the first kept.
C32_Witness ==
    /\ lastCall.op = "fitToBudget"
    /\ Len(fittedFrom) = 3
    /\ lastCall.culled = {}
    /\ lastCall.maxLights = 2
    /\ idsOf(fittedTo) = <<2, 0>>
    /\ fittedFrom[3].mViewBound.center > fittedFrom[2].mViewBound.center
    /\ fittedFrom[3].mViewBound.radius > fittedFrom[2].mViewBound.radius
    /\ statedIllumination(fittedFrom[1]) < statedIllumination(fittedFrom[2])

\* The last step was an apply that laid the buffers out anew.
laidOut ==
    /\ lastCall.op = "apply"
    /\ ~lastCall.initLayout
    /\ lastCall.activeUniformBlocks > 0

\* C34: after configureLayout with stride S, the float index of field f of
\* record i is (S / 4) * i plus the float index of field f of record 0.
C34_StrideSpacing ==
    laidOut =>
        \A g \in 0 .. 1, f \in LayoutOffset, i \in 0 .. (getMaxLightsInScene - 1) :
            get(mOffsets[g], i, f) =
                (lastCall.driver.stride \div 4) * i + get(mOffsets[g], 0, f)

\* C35: queryBlockSize(n) is 48 * n for every n >= 0, and
\* getMaxLightsInScene() is the largest n whose block size does not exceed
\* 16384 bytes, which is 341.
C35_BlockSize ==
    lastCall.op = "queryBlockSize" =>
        /\ lastCall.ret = 48 * lastCall.sz
        /\ lastCall.maxLightsInScene = 341
        /\ (lastCall.ret <= 16384) <=> (lastCall.sz <= lastCall.maxLightsInScene)

\* C35 witness: the block of one light more than getMaxLightsInScene() is
\* the first that exceeds 16384 bytes.
C35_Witness ==
    /\ lastCall.op = "queryBlockSize"
    /\ lastCall.sz = lastCall.maxLightsInScene + 1
    /\ lastCall.ret > 16384
    /\ lastCall.ret - 48 <= 16384

\* A colour multiplied by the fade of a light at distance d from the camera:
\* the fade is 1 - clamp((d - S) / (E - S), 0, 1).
faded(colour, d) ==
    LET E == mPointLightFadeEnd
        S == mPointLightFadeStart
    IN (colour * ((E - S) - clamp(d - S, 0, E - S))) \div (E - S)

\* The colour of light id after one multiplication for each entry i .. of the
\* collected list that belongs to it, whatever the fade of the entry.
RECURSIVE fadedPerEntry(_, _, _, _)
fadedPerEntry(i, id, camera, colour) ==
    IF i > Len(mLights) THEN colour
    ELSE fadedPerEntry(i + 1, id, camera,
            IF mLights[i].mLightSource = id
            THEN faded(colour, viewDistance(mLights[i], camera))
            ELSE colour)

\* The same with the entries left alone whose fade is zero.
RECURSIVE fadedPerSeenEntry(_, _, _, _)
fadedPerSeenEntry(i, id, camera, colour) ==
    IF i > Len(mLights) THEN colour
    ELSE fadedPerSeenEntry(i + 1, id, camera,
            IF /\ mLights[i].mLightSource = id
               /\ viewDistance(mLights[i], camera) < mPointLightFadeEnd
            THEN faded(colour, viewDistance(mLights[i], camera))
            ELSE colour)

\* The step computes the list of a non-reflection camera with fading on.
computesFadedList ==
    /\ lastCall'.op = "getLightsInViewSpace"
    /\ lastCall'.camera \notin DOMAIN mLightsInViewSpace
    /\ lastCall'.camera # "ReflectionCamera"
    /\ mPointLightFadeEnd # 0
    /\ mPointLightFadeStart < mPointLightFadeEnd

\* Every step multiplies the colours as often as the claim says: once per
\* entry when it computes the list of a camera, not at all otherwise.
FadePerPairStep ==
    \A id \in Lights, g \in 0 .. 1 :
        mLight'[id][g].diffuse =
            IF computesFadedList /\ g = Generation(lastCall'.frameNum)
            THEN fadedPerEntry(1, id, lastCall'.camera, mLight[id][g].diffuse)
            ELSE mLight[id][g].diffuse

\* The same with entries of fade zero not counted.
FadePerSeenPairStep ==
    \A id \in Lights, g \in 0 .. 1 :
        mLight'[id][g].diffuse =
            IF computesFadedList /\ g = Generation(lastCall'.frameNum)
            THEN fadedPerSeenEntry(1, id, lastCall'.camera, mLight[id][g].diffuse)
            ELSE mLight[id][g].diffuse

\* C36: within one frame the frame-indexed diffuse colour of a light is
\* multiplied by a fade factor exactly once per pair of an entry of that
\* light in the collected list and a distinct non-reflection camera whose
\* list is computed.
C36_FadeOncePerPair == [][FadePerPairStep]_vars

\* C36, amended: the colour is multiplied exactly once per such pair whose
\* fade factor is not zero, and not at all for a pair whose fade factor is
\* zero (the light is left out of that camera's list instead); so a light
\* registered once and listed for two non-reflection cameras ends with its
\* colour scaled by both fade factors.
C36_FadeOncePerSeenPair == [][FadePerSeenPairStep]_vars

\* C36 witness: in frame 0 light 0 is registered once, half-way between fade
\* start and fade end of both cameras; both lists are computed and list it,
\* and its colour has been halved twice.
C36_Witness ==
    /\ frameNumber = 0
    /\ mLights = << [mLightSource |-> 0, mWorldMatrix |-> mPointLightFadeStart + 1] >>
    /\ mPointLightFadeEnd = mPointLightFadeStart + 2
    /\ DOMAIN mLightsInViewSpace = {"MainCamera", "LocalMapCamera"}
    /\ idsOf(mLightsInViewSpace["MainCamera"]) = <<0>>
    /\ idsOf(mLightsInViewSpace["LocalMapCamera"]) = <<0>>
    /\ mLight[0][0].diffuse = (DiffuseInit \div 2) \div 2
    /\ DiffuseInit \div 2 > 0
    /\ lastCall.op = "getLightsInViewSpace"
    /\ lastCall.hit

\* C38: for every traversal number on which LightManagerCullCallback is
\* invoked at least once, traversal number 0 included, the sun data and (in
\* the SingleUBO tier) the buffer binding of that frame's parity are
\* refreshed exactly once, on the first invocation for that number.
C38_RefreshedOncePerTraversal ==
    \A traversalNumber \in 0 .. MaxFrame :
        invoked[traversalNumber] >= 1 => refreshed[traversalNumber] = 1

\* C37: in the PerObjectUniform tier, for every state set produced through
\* LightListCallback the number of point lights plus one (element 0 holds
\* the sun) does not exceed getMaxLights(), so every element index that
\* LightStateAttributePerObjectUniform::apply writes into the LightBuffer
\* uniform array is below the array's element count, for every value of
\* startLight, 0 included.
C37_ElementsInRange ==
    (mLightingMethod = "PerObjectUniform" /\ pc.pushedState) =>
        \A g \in 0 .. 1 : \A h \in DOMAIN mStateSetCache[g] :
            mStateSetCache[g][h].obj = pc.stateset =>
                /\ Len(mStateSetCache[g][h].lights) + 1 <= mMaxLights
                /\ \A element \in elementsWritten(mStateSetCache[g][h]) : element < mMaxLights

\* The fields a setter is to change.
ownFields(setter) ==
    CASE setter = "setDiffuse" -> {"Diffuse", "DiffuseSign"}
      [] setter = "setAmbient" -> {"Ambient"}
      [] setter = "setSpecular" -> {"Specular"}
      [] setter = "setAttenuationRadius" -> {"AttenuationRadius"}
      [] OTHER -> {"Position"}

\* A field of a record as a reader finds it.
fieldOf(record, slot) ==
    CASE slot = "Position" -> record.position
      [] slot = "AttenuationRadius" -> record.attenuationRadius
      [] OTHER -> <<record.colours[slot]>>

\* C39: each LightBuffer setter changes only its own field of the addressed
\* record: setAmbient, setSpecular, setPosition and setAttenuationRadius at
\* index i leave every other field of record i and every field of every
\* other record unchanged, setDiffuse changes only the diffuse word and the
\* diffuse-sign word of record i, and uploadCachedSunPos only the position
\* of record 0, under the default layout and after configureLayout.
C39_SettersKeepOtherFields ==
    lastCall.op \in Setters =>
        \A h \in 0 .. 1, index \in 0 .. (getMaxLightsInScene - 1), slot \in LayoutOffset :
            (\/ h # Generation(lastCall.frameNum)
             \/ index # (IF lastCall.op = "uploadCachedSunPos" THEN 0 ELSE lastCall.slots[1])
             \/ slot \notin ownFields(lastCall.op)) =>
                fieldOf(lastCall.after[h][index], slot) = fieldOf(lastCall.before[h][index], slot)

\* C39 witness: after configureLayout, with the sun and a point light packed
\* in the buffer, setAmbient changes the ambient word of record 1.
C39_Witness ==
    /\ lastCall.op = "setAmbient"
    /\ lastCall.slots = <<1>>
    /\ mOffsets[Generation(lastCall.frameNum)] # DefaultOffsets
    /\ LET before == lastCall.before[Generation(lastCall.frameNum)]
           after == lastCall.after[Generation(lastCall.frameNum)]
       IN /\ before[1].colours["Diffuse"] # 0
          /\ before[1].position # <<0, 0, 0, 0>>
          /\ before[1].attenuationRadius # <<0, 0, 0, 0>>
          /\ before[0].colours["Specular"] # 0
          /\ after[1].colours["Ambient"] # before[1].colours["Ambient"]

\* The children of a group as a set.
childrenOf(children) == { children[i] : i \in 1 .. Len(children) }

\* C40: attach on a non-skeleton node whose clone contains a node named
\* BoneOffset that is not a MatrixTransform raises a runtime error and adds
\* no child to attachNode or master; in every non-failing case the node
\* returned is, on return, a direct child of master (skeleton case) or of
\* attachNode (non-skeleton case).
C40_AttachedOrThrown ==
    lastCall.op = "attach" =>
        /\ (~lastCall.toAttach.skeleton /\ lastCall.toAttach.boneOffset = "Group") =>
              /\ lastCall.result.thrown
              /\ lastCall.result.attachNode = lastCall.attachNode
              /\ lastCall.result.master = lastCall.master
        /\ ~lastCall.result.thrown =>
              lastCall.result.returned \in
                 childrenOf(IF lastCall.toAttach.skeleton THEN lastCall.result.master
                            ELSE lastCall.result.attachNode)

\* C40 witness: a non-skeleton node with a MatrixTransform named BoneOffset
\* is attached to a node that has a child already; the transform returned
\* is the second child of attachNode and holds the clone.
C40_Witness ==
    /\ lastCall.op = "attach"
    /\ ~lastCall.toAttach.skeleton
    /\ lastCall.toAttach.boneOffset = "MatrixTransform"
    /\ ~lastCall.result.thrown
    /\ lastCall.attachNode = <<Child(1)>>
    /\ lastCall.result.attachNode = <<Child(1), Trans>>
    /\ lastCall.result.returned = Trans
    /\ lastCall.result.trans = <<ClonedToAttach>>

====
